---- MODULE Spec2Model ----
(***************************************************************************)
(* A model of the CHIP-8 core of vm-tutorial: the instruction decoder      *)
(* (core/spec.h), the guest state and its setters (core/impl.h), the       *)
(* interpreter's Step (impl_interpreter.cpp), the disassembler             *)
(* (disasm.cpp) and the orchestrator VMInstance (vm_instance.h,            *)
(* vm_instance.cpp); and of the part of the Qt frontend that drives it:    *)
(* the worker thread's run loop (vm_thread.cpp), the GUI handlers that     *)
(* start it, stop it and pass keys to the machine (vm_tutorial_app.cpp),   *)
(* and the debugger's disassembly view (debugger_disasm.cpp).              *)
(*                                                                         *)
(* The guest state is the record `impl`, whose fields carry the names of   *)
(* the members of chip8::ImplementationInterface.  The orchestrator's      *)
(* members are separate variables.  `ret` observes the last call made on   *)
(* the machine: which operation, its argument, what it returned, what the  *)
(* Steps it made returned, which callbacks it invoked and which Qt signals *)
(* it emitted.  `ub` records                                               *)
(* that the last call indexed an array outside its bounds; C++ gives such  *)
(* an access no meaning, so nothing is explored past it.                   *)
(* `uint_fast8_bits` is the width the build gives to uint_fast8_t, the     *)
(* type of the registers, of the memory bytes and of the two timers.       *)
(* `vm_thread_` is the worker thread of the frontend (VMThread, a QThread)  *)
(* together with the GUI thread's position in a handler that waits for it: *)
(*   at      where the worker is: "finished" (run has returned or was not  *)
(*           started), "loop" (about to test isInterruptionRequested),     *)
(*           "frame" (inside RunForOneFrame) or "sleep" (in sleep_until);  *)
(*   steps   what the Steps of the frame in progress have returned;        *)
(*   interruption_requested   the flag of QThread::requestInterruption;    *)
(*   host    "idle", or the handler that is blocked in QThread::wait.      *)
(*                                                                         *)
(* The two large arrays are kept by their non-default entries: memory_ is  *)
(* the function from every address whose byte is not zero to that byte     *)
(* (Byte reads it, WriteByte stores into it), and framebuffer_ is the set  *)
(* of the pixels that hold kWhite (Pixel reads it).  Both are exact: every *)
(* array content has one such value and every such value is one content.   *)
(* A container of program bytes is kept the same way, with its size.       *)
(***************************************************************************)
EXTENDS Integers, Sequences, FiniteSets, TLC

VARIABLES impl, breakpoints_, number_of_steps_executed_, is_playing_tone_,
          number_of_steps_per_frame_, instructions_per_sec_,
          target_frame_rate_, max_frame_time_, frame_rate_,
          update_screen_func_, play_tone_func_, ret, ub, uint_fast8_bits,
          vm_thread_

vars == <<impl, breakpoints_, number_of_steps_executed_, is_playing_tone_,
          number_of_steps_per_frame_, instructions_per_sec_,
          target_frame_rate_, max_frame_time_, frame_rate_,
          update_screen_func_, play_tone_func_, ret, ub, uint_fast8_bits,
          vm_thread_>>

(***************************************************************************)
(* Program constants (core/spec.h).                                        *)
(***************************************************************************)
kV == 16
kStack == 16
kInternalMemory == 4096
kInstructionLength == 2
kKeypad == 16
kFontLength == 5
kProgramCounter == kInternalMemory - kInstructionLength
kMinRandomValue == 0
kMaxRandomValue == 255
kProgramArea == 512
kDefaultInstructionsPerSecond == 500
kDefaultFrameRate == 60
kWidth == 64
kHeight == 32
kSize == kWidth * kHeight
kWhite == 16777215
kBlack == 0
kPressed == TRUE
kReleased == FALSE
kMaxProgramSize == kInternalMemory - kProgramArea
kMaxTimerSteps == 7
kSecInMs == 1000

\* Instruction groups and instructions (core/spec.h).
kControlFlowAndScreen == 0
kJP_Address == 1
kCALL_Address == 2
kSE_Vx_Imm == 3
kSNE_Vx_Imm == 4
kSE_Vx_Vy == 5
kLD_Vx_Imm == 6
kADD == 7
kMath == 8
kSNE_Vx_Vy == 9
kLD_I_Addr == 10
kJP_V0_Addr == 11
kRND == 12
kDRW == 13
kKeyboardControlFlow == 14
kTimerAndMemoryControl == 15
kCLS == 224
kRET == 238
kMathLD == 0
kMathOR == 1
kMathAND == 2
kMathXOR == 3
kMathADD == 4
kMathSUB == 5
kMathSHR_Vx == 6
kMathSUBN == 7
kMathSHL_Vx == 14
kSKP == 158
kSKNP == 161
kLD_Vx_DT == 7
kLD_Vx_K == 10
kLD_DT_Vx == 21
kLD_ST_Vx == 24
kADD_I_Vx == 30
kLD_F_Vx == 41
kLD_B_Vx == 51
kLD_I_Vx == 85
kLD_Vx_I == 101

\* BreakpointFlags: the enumerators in declaration order.
kClearAfterTrigger == 0
kPreserve == 1

kFontSet ==
  << 240, 144, 144, 144, 240,
      32,  96,  32,  32, 112,
     240,  16, 240, 128, 240,
     240,  16, 240,  16, 240,
     144, 144, 240,  16,  16,
     240, 128, 240,  16, 240,
     240, 128, 240, 144, 240,
     240,  16,  32,  64,  64,
     240, 144, 240, 144, 240,
     240, 144, 240,  16, 240,
     240, 144, 240, 144, 144,
     224, 144, 224, 144, 224,
     240, 128, 128, 128, 240,
     224, 144, 144, 144, 224,
     240, 128, 240, 128, 240,
     240, 128, 240, 128, 128 >>

(***************************************************************************)
(* Bounds of the exploration.                                              *)
(***************************************************************************)
\* VMInstance::Step is not taken once the step counter has reached MaxSteps.
MaxSteps == 20
\* Keys 0..MaxKey and key 15 are pressed and released by the host.
MaxKey == 0
\* At most MaxBreakpoints entries are kept in breakpoints_.
MaxBreakpoints == 2

(***************************************************************************)
(* Arithmetic on uint_fast8_t: an unsigned type of uint_fast8_bits bits,   *)
(* at least 8, in which a stored value is reduced modulo 2^width.          *)
(***************************************************************************)
Fast8(v) == v % (2 ^ uint_fast8_bits)

RECURSIVE BitOp(_, _, _, _)
\* The bitwise operation op on the low n bits of a and b.
BitOp(op, a, b, n) ==
  IF n = 0 THEN 0
  ELSE LET x == a % 2
           y == b % 2
           bit == CASE op = "and" -> IF x = 1 /\ y = 1 THEN 1 ELSE 0
                    [] op = "or"  -> IF x = 1 \/ y = 1 THEN 1 ELSE 0
                    [] op = "xor" -> IF x # y THEN 1 ELSE 0
       IN bit + 2 * BitOp(op, a \div 2, b \div 2, n - 1)

And(a, b) == BitOp("and", a, b, 16)
Or(a, b)  == BitOp("or", a, b, 16)
Xor(a, b) == BitOp("xor", a, b, 16)

(***************************************************************************)
(* Instruction decoder (core/spec.h).                                      *)
(***************************************************************************)
GetGroup(instruction)   == instruction \div 4096
GetAddress(instruction) == instruction % 4096
GetNibble(instruction)  == instruction % 16
GetX(instruction)       == (instruction \div 256) % 16
\* A decoder of y that forgets the shift.
GetY_Unshifted(instruction) == instruction % 256
GetY(instruction) == (instruction % 256) \div 16
GetByte(instruction)    == instruction % 256

Instruction(value) ==
  [group_   |-> GetGroup(value),
   x_       |-> GetX(value),
   y_       |-> GetY(value),
   address_ |-> GetAddress(value),
   byte_    |-> GetByte(value),
   nibble_  |-> GetNibble(value),
   value_   |-> value]

(***************************************************************************)
(* Guest state (core/impl.h).                                              *)
(***************************************************************************)
Registers == 0..(kV - 1)
StackSlots == 0..(kStack - 1)
Addresses == 0..(kInternalMemory - 1)
Pixels == 0..(kSize - 1)
Keys == 0..(kKeypad - 1)

Faults == {"kInvalidMemoryLocation", "kInvalidInstruction", "kInvalidKey",
           "kInvalidSpriteLocation", "kStackUnderflow", "kStackOverflow"}

\* memory_[a] and framebuffer_[p] for indices inside the arrays.
Byte(memory, a) == IF a \in DOMAIN memory THEN memory[a] ELSE 0
Pixel(framebuffer, p) == IF p \in framebuffer THEN kWhite ELSE kBlack

\* The non-zero entries of an array of bytes.
NonZero(bytes) == [a \in {b \in DOMAIN bytes : bytes[b] # 0} |-> bytes[a]]

\* The array `memory` after the addresses `where` have been overwritten:
\* `bytes` holds the non-zero bytes stored there, the others stored are zero.
WriteBytes(memory, where, bytes) ==
  [a \in (DOMAIN bytes) \cup {b \in DOMAIN memory : b \notin where} |->
     IF a \in DOMAIN bytes THEN bytes[a] ELSE memory[a]]

WriteByte(memory, a, v) == WriteBytes(memory, {a}, NonZero([b \in {a} |-> v]))

WritePixel(framebuffer, p, colour) ==
  IF colour = kWhite THEN framebuffer \cup {p} ELSE framebuffer \ {p}

ResetFramebuffer(g) == [g EXCEPT !.framebuffer_ = {}]

ResetInternalMemory(g) ==
  [g EXCEPT !.memory_ =
     WriteBytes(<< >>, 0..(Len(kFontSet) - 1),
                NonZero([a \in 0..(Len(kFontSet) - 1) |-> kFontSet[a + 1]]))]

ResetStack(g) == [g EXCEPT !.stack_ = [i \in StackSlots |-> 0]]

ResetKeypad(g) == [g EXCEPT !.keypad_ = [k \in Keys |-> kReleased]]

ResetRegisters(g) ==
  [g EXCEPT !.program_counter_ = kProgramArea,
            !.stack_pointer_ = -1,
            !.delay_timer_ = 0,
            !.sound_timer_ = 0,
            !.I_ = 0,
            !.halted_until_key_press_ = FALSE]

ResetGeneralPurposeRegisters(g) == [g EXCEPT !.V_ = [i \in Registers |-> 0]]

\* A Reset that leaves the internal memory as it is.
ImplReset_KeepsMemory(g) ==
  ResetGeneralPurposeRegisters(ResetRegisters(
    ResetKeypad(ResetStack(ResetFramebuffer(g)))))

\* ImplementationInterface::Reset.  key_press_dest_ is not touched by it.
ImplReset(g) ==
  ResetInternalMemory(ResetGeneralPurposeRegisters(ResetRegisters(
    ResetKeypad(ResetStack(ResetFramebuffer(g))))))

\* The members before the constructor has run Reset.  key_press_dest_, which
\* no reset assigns, is not read before HaltUntilKeyPress has assigned it.
Unconstructed ==
  [V_ |-> [i \in Registers |-> 0],
   stack_ |-> [i \in StackSlots |-> 0],
   memory_ |-> << >>,
   framebuffer_ |-> {},
   keypad_ |-> [k \in Keys |-> kReleased],
   program_counter_ |-> 0,
   stack_pointer_ |-> 0,
   delay_timer_ |-> 0,
   sound_timer_ |-> 0,
   I_ |-> 0,
   halted_until_key_press_ |-> FALSE,
   key_press_dest_ |-> 0]

IsHaltedUntilKeyPress(g) == g.halted_until_key_press_

\* A halt that does not record the destination register.
HaltUntilKeyPress_ForgetsRegister(g, x) ==
  [g EXCEPT !.halted_until_key_press_ = TRUE]

HaltUntilKeyPress(g, x) ==
  [g EXCEPT !.halted_until_key_press_ = TRUE, !.key_press_dest_ = x]

SetProgramCounterOp(g, new_program_counter) ==
  IF new_program_counter > kProgramCounter
    THEN [impl |-> g, result |-> FALSE]
    ELSE [impl |-> [g EXCEPT !.program_counter_ = new_program_counter],
          result |-> TRUE]

\* A SetKeyState that delivers the key but leaves the machine halted.
SetKeyStateOp_StaysHalted(g, key, state) ==
  LET g1 == IF state = kPressed /\ IsHaltedUntilKeyPress(g)
              THEN [g EXCEPT !.V_[g.key_press_dest_] = key]
              ELSE g
  IN [g1 EXCEPT !.keypad_[key] = state]

SetKeyStateOp(g, key, state) ==
  LET g1 == IF state = kPressed /\ IsHaltedUntilKeyPress(g)
              THEN [g EXCEPT !.V_[g.key_press_dest_] = key,
                             !.halted_until_key_press_ = FALSE]
              ELSE g
  IN [g1 EXCEPT !.keypad_[key] = state]

\* Place values handed out ones digit first.
GetPlaceValues_OnesFirst(Vx) ==
  << Vx % 10, (Vx \div 10) % 10, (Vx \div 100) % 10 >>

GetPlaceValues(Vx) == << (Vx \div 100) % 10, (Vx \div 10) % 10, Vx % 10 >>

(***************************************************************************)
(* The interpreter (impl_interpreter.cpp).                                 *)
(***************************************************************************)
GetPixelIndex(x_coord, y_coord) == y_coord * kWidth + x_coord

\* The instruction word at program_counter_, high byte first.  Both bytes
\* must lie inside memory_.
FetchInBounds(g) == g.program_counter_ + 1 <= kInternalMemory - 1

FetchAndDecodeInstruction(g) ==
  Instruction(Byte(g.memory_, g.program_counter_) * 256
              + Byte(g.memory_, g.program_counter_ + 1))

\* A skip that does not look at its condition.
SkipNextInstructionIf_Always(g, condition_met) ==
  g.program_counter_ + (kInstructionLength * 2)

\* next_program_counter_ after SkipNextInstructionIf(condition_met).
SkipNextInstructionIf(g, condition_met) ==
  IF condition_met THEN g.program_counter_ + (kInstructionLength * 2)
                   ELSE g.program_counter_ + kInstructionLength

\* What a handler leaves behind: the guest state, next_program_counter_ and
\* step_result.
Handled(g, next, res) == [impl |-> g, next |-> next, result |-> res]

SetV(g, i, v) == [g EXCEPT !.V_[i] = v]

\* A carry flag that misses a sum of exactly 0x100.
Carry_Above100(sum) == IF sum > 256 THEN 1 ELSE 0

\* VF = sum > 0xFF, the flag of ADD Vx,Vy.
Carry(sum) == IF sum > 255 THEN 1 ELSE 0

\* 8xy_: Vx and Vy are references into V_, and VF is V_[15], so every
\* assignment is applied in program order to the one register array.
MathInstruction(g, ins, next) ==
  LET x == ins.x_
      y == ins.y_
      Vx == g.V_[x]
      Vy == g.V_[y]
  IN CASE ins.nibble_ = kMathLD -> Handled(SetV(g, x, Vy), next, "kSuccess")
       [] ins.nibble_ = kMathOR -> Handled(SetV(g, x, Or(Vx, Vy)), next, "kSuccess")
       [] ins.nibble_ = kMathAND -> Handled(SetV(g, x, And(Vx, Vy)), next, "kSuccess")
       [] ins.nibble_ = kMathXOR -> Handled(SetV(g, x, Xor(Vx, Vy)), next, "kSuccess")
       [] ins.nibble_ = kMathADD ->
            LET sum == Vx + Vy
                g1 == SetV(g, 15, Carry(sum))
            IN Handled(SetV(g1, x, And(sum, 255)), next, "kSuccess")
       [] ins.nibble_ = kMathSUB ->
            LET g1 == SetV(g, 15, IF Vx > Vy THEN 1 ELSE 0)
            IN Handled(SetV(g1, x, Fast8(g1.V_[x] - g1.V_[y])), next, "kSuccess")
       [] ins.nibble_ = kMathSHR_Vx ->
            LET g1 == SetV(g, 15, And(Vx, 1))
            IN Handled(SetV(g1, x, g1.V_[x] \div 2), next, "kSuccess")
       [] ins.nibble_ = kMathSUBN ->
            LET g1 == SetV(g, 15, IF Vy > Vx THEN 1 ELSE 0)
            IN Handled(SetV(g1, x, Fast8(g1.V_[y] - g1.V_[x])), next, "kSuccess")
       [] ins.nibble_ = kMathSHL_Vx ->
            LET g1 == SetV(g, 15, IF And(Vx, 128) # 0 THEN 1 ELSE 0)
            IN Handled(SetV(g1, x, And(Fast8(g1.V_[x] * 2), 255)), next,
                       "kSuccess")
       [] OTHER -> Handled(g, next, "kInvalidInstruction")

RECURSIVE DrawColumns(_, _, _, _, _)
\* The inner loop of DRW from column x on: Vx and VF are read from V_ as it
\* stands at each pixel.
DrawColumns(g, ins, sprite_line, y_pos, x) ==
  IF x >= 8 THEN g
  ELSE LET x_pos == (g.V_[ins.x_] + x) % kWidth
           pixel_location == GetPixelIndex(x_pos, y_pos)
           g1 == IF (sprite_line \div (2 ^ (7 - x))) % 2 = 1
                   THEN IF Pixel(g.framebuffer_, pixel_location) = kWhite
                          THEN SetV([g EXCEPT !.framebuffer_ =
                                       WritePixel(@, pixel_location, kBlack)],
                                    15, 1)
                          ELSE [g EXCEPT !.framebuffer_ =
                                  WritePixel(@, pixel_location, kWhite)]
                   ELSE g
       IN DrawColumns(g1, ins, sprite_line, y_pos, x + 1)

\* A test of the sprite's last row in place of the row about to be read.
SpriteRowInBounds_LastRow(g, ins, y) ==
  g.I_ + ins.nibble_ - 1 < kInternalMemory

\* Row y of the sprite lies in memory_: sprite_location < memory_.size().
SpriteRowInBounds(g, ins, y) == g.I_ + y < kInternalMemory

RECURSIVE DrawRows(_, _, _, _)
\* The outer loop of DRW from row y on.
DrawRows(g, ins, next, y) ==
  IF y >= ins.nibble_ THEN Handled(g, next, "kSuccess")
  ELSE LET sprite_location == g.I_ + y
       IN IF ~SpriteRowInBounds(g, ins, y)
            THEN Handled(g, next, "kInvalidSpriteLocation")
            ELSE LET sprite_line == Byte(g.memory_, sprite_location)
                     y_pos == (g.V_[ins.y_] + y) % kHeight
                 IN DrawRows(DrawColumns(g, ins, sprite_line, y_pos, 0),
                             ins, next, y + 1)

\* A keyboard group in which SKNP skips on a pressed key, as SKP does.
KeyboardInstruction_SknpOnPressed(g, ins, next) ==
  LET Vx == g.V_[ins.x_]
  IN CASE ins.byte_ \in {kSKP, kSKNP} ->
            IF Vx >= kKeypad
              THEN Handled(g, next, "kInvalidKey")
              ELSE Handled(g, SkipNextInstructionIf(g, g.keypad_[Vx] = kPressed),
                           "kSuccess")
       [] OTHER -> Handled(g, next, "kInvalidInstruction")

KeyboardInstruction(g, ins, next) ==
  LET Vx == g.V_[ins.x_]
  IN CASE ins.byte_ = kSKP ->
            IF Vx >= kKeypad
              THEN Handled(g, next, "kInvalidKey")
              ELSE Handled(g, SkipNextInstructionIf(g, g.keypad_[Vx] = kPressed),
                           "kSuccess")
       [] ins.byte_ = kSKNP ->
            IF Vx >= kKeypad
              THEN Handled(g, next, "kInvalidKey")
              ELSE Handled(g, SkipNextInstructionIf(g, g.keypad_[Vx] = kReleased),
                           "kSuccess")
       [] OTHER -> Handled(g, next, "kInvalidInstruction")

\* Fx55 and Fx65 copy x + 1 bytes starting at memory_[I_] with no check.
BulkCopyInBounds(g, ins) == g.I_ + ins.x_ <= kInternalMemory - 1

TimerAndMemoryInstruction(g, ins, next) ==
  LET x == ins.x_
      Vx == g.V_[x]
  IN CASE ins.byte_ = kLD_Vx_DT -> Handled(SetV(g, x, g.delay_timer_), next, "kSuccess")
       [] ins.byte_ = kLD_Vx_K ->
            Handled(HaltUntilKeyPress(g, x), next, "kHaltUntilKeyPress")
       [] ins.byte_ = kLD_DT_Vx ->
            Handled([g EXCEPT !.delay_timer_ = Vx], next, "kSuccess")
       [] ins.byte_ = kLD_ST_Vx ->
            Handled([g EXCEPT !.sound_timer_ = Vx], next, "kSuccess")
       [] ins.byte_ = kADD_I_Vx ->
            Handled([g EXCEPT !.I_ = g.I_ + Vx], next, "kSuccess")
       [] ins.byte_ = kLD_F_Vx ->
            Handled([g EXCEPT !.I_ = Vx * kFontLength], next, "kSuccess")
       [] ins.byte_ = kLD_B_Vx ->
            LET ones_digit_store_address == g.I_ + 2
                digits == GetPlaceValues(Vx)
            IN IF ones_digit_store_address >= kInternalMemory
                 THEN Handled(g, next, "kInvalidMemoryLocation")
                 ELSE Handled([g EXCEPT !.memory_ =
                                 WriteByte(WriteByte(WriteByte(@,
                                   g.I_, digits[1]),
                                   g.I_ + 1, digits[2]),
                                   g.I_ + 2, digits[3])],
                              next, "kSuccess")
       [] ins.byte_ = kLD_I_Vx ->
            IF BulkCopyInBounds(g, ins)
              THEN Handled([g EXCEPT !.memory_ =
                              WriteBytes(@, g.I_..(g.I_ + x),
                                         NonZero([a \in g.I_..(g.I_ + x) |->
                                                    g.V_[a - g.I_]]))],
                           next, "kSuccess")
              ELSE Handled(g, next, "undefined")
       [] ins.byte_ = kLD_Vx_I ->
            IF BulkCopyInBounds(g, ins)
              THEN Handled([g EXCEPT !.V_ =
                              [i \in Registers |->
                                 IF i <= x THEN Byte(g.memory_, g.I_ + i)
                                           ELSE g.V_[i]]],
                           next, "kSuccess")
              ELSE Handled(g, next, "undefined")
       [] OTHER -> Handled(g, next, "kInvalidInstruction")

\* The guards of RET and CALL on the stack pointer.
\* A RET guard that is off by one.
StackIsEmpty_OffByOne(g) == g.stack_pointer_ <= 0

StackIsEmpty(g) == g.stack_pointer_ < 0

\* A CALL guard that is off by one.
StackHasRoom_OffByOne(g) == g.stack_pointer_ <= kStack - 1

StackHasRoom(g) == g.stack_pointer_ < kStack - 1

\* The switch of Step on an instruction that was fetched inside memory_;
\* rnd is the number the random engine hands to RND.
Execute(g, ins, rnd) ==
  LET x == ins.x_
      Vx == g.V_[x]
      Vy == g.V_[ins.y_]
      next == g.program_counter_ + kInstructionLength
  IN CASE ins.group_ = kControlFlowAndScreen ->
            (CASE ins.byte_ = kCLS ->
                    Handled(ResetFramebuffer(g), next, "kSuccess")
               [] ins.byte_ = kRET ->
                    IF StackIsEmpty(g)
                      THEN Handled(g, next, "kStackUnderflow")
                      ELSE Handled([g EXCEPT !.stack_pointer_ = @ - 1],
                                   g.stack_[g.stack_pointer_], "kSuccess")
               [] OTHER -> Handled(g, next, "kInvalidInstruction"))
       [] ins.group_ = kJP_Address -> Handled(g, ins.address_, "kSuccess")
       [] ins.group_ = kCALL_Address ->
            IF StackHasRoom(g)
              THEN Handled([g EXCEPT !.stack_pointer_ = @ + 1,
                                     !.stack_[g.stack_pointer_ + 1] =
                                        g.program_counter_ + kInstructionLength],
                           ins.address_, "kSuccess")
              ELSE Handled(g, next, "kStackOverflow")
       [] ins.group_ = kSE_Vx_Imm ->
            Handled(g, SkipNextInstructionIf(g, Vx = ins.byte_), "kSuccess")
       [] ins.group_ = kSNE_Vx_Imm ->
            Handled(g, SkipNextInstructionIf(g, Vx # ins.byte_), "kSuccess")
       [] ins.group_ = kSE_Vx_Vy ->
            Handled(g, SkipNextInstructionIf(g, Vx = Vy), "kSuccess")
       [] ins.group_ = kLD_Vx_Imm -> Handled(SetV(g, x, ins.byte_), next, "kSuccess")
       [] ins.group_ = kADD ->
            Handled(SetV(g, x, And(Fast8(Vx + ins.byte_), 255)), next, "kSuccess")
       [] ins.group_ = kMath -> MathInstruction(g, ins, next)
       [] ins.group_ = kSNE_Vx_Vy ->
            Handled(g, SkipNextInstructionIf(g, Vx # Vy), "kSuccess")
       [] ins.group_ = kLD_I_Addr ->
            Handled([g EXCEPT !.I_ = ins.address_], next, "kSuccess")
       [] ins.group_ = kJP_V0_Addr ->
            Handled(g, g.V_[0] + ins.address_, "kSuccess")
       [] ins.group_ = kRND ->
            Handled(SetV(g, x, And(rnd, ins.byte_)), next, "kSuccess")
       [] ins.group_ = kDRW -> DrawRows(SetV(g, 15, 0), ins, next, 0)
       [] ins.group_ = kKeyboardControlFlow -> KeyboardInstruction(g, ins, next)
       [] ins.group_ = kTimerAndMemoryControl -> TimerAndMemoryInstruction(g, ins, next)

\* An end of Step that moves the program counter whatever the result.
CommitProgramCounter_Always(h) ==
  IF h.result = "undefined"
    THEN [impl |-> h.impl, result |-> "undefined"]
    ELSE [impl |-> [h.impl EXCEPT !.program_counter_ = h.next],
          result |-> h.result]

\* The end of Step: the program counter moves only on kSuccess and
\* kHaltUntilKeyPress.
CommitProgramCounter(h) ==
  IF h.result = "undefined"
    THEN [impl |-> h.impl, result |-> "undefined"]
    ELSE [impl |-> IF h.result \in {"kSuccess", "kHaltUntilKeyPress"}
                     THEN [h.impl EXCEPT !.program_counter_ = h.next]
                     ELSE h.impl,
          result |-> h.result]

\* A Step without the early return of a halted machine.
ImplStep_NoHaltCheck(g, rnd) ==
  IF ~FetchInBounds(g)
    THEN [impl |-> g, result |-> "undefined"]
    ELSE CommitProgramCounter(Execute(g, FetchAndDecodeInstruction(g), rnd))

\* InterpreterImplementation::Step.  The result "undefined" stands for an
\* access outside an array, after which the guest state is left as it was.
ImplStep(g, rnd) ==
  IF IsHaltedUntilKeyPress(g)
    THEN [impl |-> g, result |-> "kHaltUntilKeyPress"]
    ELSE IF ~FetchInBounds(g)
           THEN [impl |-> g, result |-> "undefined"]
           ELSE CommitProgramCounter(
                  Execute(g, FetchAndDecodeInstruction(g), rnd))

(***************************************************************************)
(* The disassembler (disasm.cpp).  The string DisassembleInstruction       *)
(* returns is kept as the call of fmt::format that builds it: the format   *)
(* string and the values of its arguments.                                 *)
(***************************************************************************)
\* A disassembler that gives 8xy8..8xyD and 8xyF the name of a shift.
DisassembleInstruction_NamesEveryMath(instruction) ==
  LET Format(format, args) == [format |-> format, args |-> args]
      x == instruction.x_
      y == instruction.y_
      byte == instruction.byte_
      address == instruction.address_
  IN CASE instruction.group_ = kControlFlowAndScreen ->
            (CASE byte = kCLS -> Format("CLS", << >>)
               [] byte = kRET -> Format("RET", << >>)
               [] OTHER -> Format("ILLEGAL ${:04X}", << instruction.value_ >>))
       [] instruction.group_ = kJP_Address -> Format("JP ${:04X}", << address >>)
       [] instruction.group_ = kCALL_Address ->
            Format("CALL ${:04X}", << address >>)
       [] instruction.group_ = kSE_Vx_Imm ->
            Format("SE V{:X}, ${:02X}", << x, byte >>)
       [] instruction.group_ = kSNE_Vx_Imm ->
            Format("SNE V{:X}, ${:02X}", << x, byte >>)
       [] instruction.group_ = kSE_Vx_Vy -> Format("SE V{:X}, V{:X}", << x, y >>)
       [] instruction.group_ = kLD_Vx_Imm ->
            Format("LD V{:X}, ${:02X}", << x, byte >>)
       [] instruction.group_ = kADD ->
            Format("ADD V{:X}, ${:02X}", << x, byte >>)
       [] instruction.group_ = kMath ->
            (CASE instruction.nibble_ = kMathLD ->
                    Format("LD V{:X}, V{:X}", << x, y >>)
               [] instruction.nibble_ = kMathOR ->
                    Format("OR V{:X}, V{:X}", << x, y >>)
               [] instruction.nibble_ = kMathAND ->
                    Format("AND V{:X}, V{:X}", << x, y >>)
               [] instruction.nibble_ = kMathXOR ->
                    Format("XOR V{:X}, V{:X}", << x, y >>)
               [] instruction.nibble_ = kMathADD ->
                    Format("ADD V{:X}, V{:X}", << x, y >>)
               [] instruction.nibble_ = kMathSUB ->
                    Format("SUB V{:X}, V{:X}", << x, y >>)
               [] instruction.nibble_ = kMathSHR_Vx ->
                    Format("SHR V{:X}", << x >>)
               [] instruction.nibble_ = kMathSUBN ->
                    Format("SUBN V{:X}, V{:X}", << x, y >>)
               [] instruction.nibble_ = kMathSHL_Vx ->
                    Format("SHL V{:X}", << x >>)
               [] OTHER -> Format("SHL V{:X}", << x >>))
       [] instruction.group_ = kSNE_Vx_Vy ->
            Format("SNE V{:X}, V{:X}", << x, y >>)
       [] instruction.group_ = kLD_I_Addr -> Format("LD I, ${:04X}", << address >>)
       [] instruction.group_ = kJP_V0_Addr ->
            Format("JP V0, ${:04X}", << address >>)
       [] instruction.group_ = kRND ->
            Format("RND V{:X}, ${:02X}", << x, byte >>)
       [] instruction.group_ = kDRW ->
            Format("DRW V{:X}, V{:X}, {:#}", << x, y, instruction.nibble_ >>)
       [] instruction.group_ = kKeyboardControlFlow ->
            (CASE byte = kSKP -> Format("SKP V{:X}", << x >>)
               [] byte = kSKNP -> Format("SKNP V{:X}", << x >>)
               [] OTHER -> Format("ILLEGAL ${:X}", << instruction.value_ >>))
       [] instruction.group_ = kTimerAndMemoryControl ->
            (CASE byte = kLD_Vx_DT -> Format("LD V{:X}, DT", << x >>)
               [] byte = kLD_Vx_K -> Format("LD V{:X}, K", << x >>)
               [] byte = kLD_DT_Vx -> Format("LD DT, V{:X}", << x >>)
               [] byte = kLD_ST_Vx -> Format("LD ST, V{:X}", << x >>)
               [] byte = kADD_I_Vx -> Format("ADD I, V{:X}", << x >>)
               [] byte = kLD_F_Vx -> Format("LD F, V{:X}", << x >>)
               [] byte = kLD_B_Vx -> Format("LD B, V{:X}", << x >>)
               [] byte = kLD_I_Vx -> Format("LD [I], V{:X}", << x >>)
               [] byte = kLD_Vx_I -> Format("LD V{:X}, [I]", << x >>)
               [] OTHER -> Format("ILLEGAL ${:X}", << instruction.value_ >>))
       [] OTHER -> Format("ILLEGAL ${:X}", << instruction.value_ >>)

\* chip8::debug::DisassembleInstruction
DisassembleInstruction(instruction) ==
  LET Format(format, args) == [format |-> format, args |-> args]
      x == instruction.x_
      y == instruction.y_
      byte == instruction.byte_
      address == instruction.address_
  IN CASE instruction.group_ = kControlFlowAndScreen ->
            (CASE byte = kCLS -> Format("CLS", << >>)
               [] byte = kRET -> Format("RET", << >>)
               [] OTHER -> Format("ILLEGAL ${:04X}", << instruction.value_ >>))
       [] instruction.group_ = kJP_Address -> Format("JP ${:04X}", << address >>)
       [] instruction.group_ = kCALL_Address ->
            Format("CALL ${:04X}", << address >>)
       [] instruction.group_ = kSE_Vx_Imm ->
            Format("SE V{:X}, ${:02X}", << x, byte >>)
       [] instruction.group_ = kSNE_Vx_Imm ->
            Format("SNE V{:X}, ${:02X}", << x, byte >>)
       [] instruction.group_ = kSE_Vx_Vy -> Format("SE V{:X}, V{:X}", << x, y >>)
       [] instruction.group_ = kLD_Vx_Imm ->
            Format("LD V{:X}, ${:02X}", << x, byte >>)
       [] instruction.group_ = kADD ->
            Format("ADD V{:X}, ${:02X}", << x, byte >>)
       [] instruction.group_ = kMath ->
            (CASE instruction.nibble_ = kMathLD ->
                    Format("LD V{:X}, V{:X}", << x, y >>)
               [] instruction.nibble_ = kMathOR ->
                    Format("OR V{:X}, V{:X}", << x, y >>)
               [] instruction.nibble_ = kMathAND ->
                    Format("AND V{:X}, V{:X}", << x, y >>)
               [] instruction.nibble_ = kMathXOR ->
                    Format("XOR V{:X}, V{:X}", << x, y >>)
               [] instruction.nibble_ = kMathADD ->
                    Format("ADD V{:X}, V{:X}", << x, y >>)
               [] instruction.nibble_ = kMathSUB ->
                    Format("SUB V{:X}, V{:X}", << x, y >>)
               [] instruction.nibble_ = kMathSHR_Vx ->
                    Format("SHR V{:X}", << x >>)
               [] instruction.nibble_ = kMathSUBN ->
                    Format("SUBN V{:X}, V{:X}", << x, y >>)
               [] instruction.nibble_ = kMathSHL_Vx ->
                    Format("SHL V{:X}", << x >>)
               [] OTHER -> Format("ILLEGAL ${:X}", << instruction.value_ >>))
       [] instruction.group_ = kSNE_Vx_Vy ->
            Format("SNE V{:X}, V{:X}", << x, y >>)
       [] instruction.group_ = kLD_I_Addr -> Format("LD I, ${:04X}", << address >>)
       [] instruction.group_ = kJP_V0_Addr ->
            Format("JP V0, ${:04X}", << address >>)
       [] instruction.group_ = kRND ->
            Format("RND V{:X}, ${:02X}", << x, byte >>)
       [] instruction.group_ = kDRW ->
            Format("DRW V{:X}, V{:X}, {:#}", << x, y, instruction.nibble_ >>)
       [] instruction.group_ = kKeyboardControlFlow ->
            (CASE byte = kSKP -> Format("SKP V{:X}", << x >>)
               [] byte = kSKNP -> Format("SKNP V{:X}", << x >>)
               [] OTHER -> Format("ILLEGAL ${:X}", << instruction.value_ >>))
       [] instruction.group_ = kTimerAndMemoryControl ->
            (CASE byte = kLD_Vx_DT -> Format("LD V{:X}, DT", << x >>)
               [] byte = kLD_Vx_K -> Format("LD V{:X}, K", << x >>)
               [] byte = kLD_DT_Vx -> Format("LD DT, V{:X}", << x >>)
               [] byte = kLD_ST_Vx -> Format("LD ST, V{:X}", << x >>)
               [] byte = kADD_I_Vx -> Format("ADD I, V{:X}", << x >>)
               [] byte = kLD_F_Vx -> Format("LD F, V{:X}", << x >>)
               [] byte = kLD_B_Vx -> Format("LD B, V{:X}", << x >>)
               [] byte = kLD_I_Vx -> Format("LD [I], V{:X}", << x >>)
               [] byte = kLD_Vx_I -> Format("LD V{:X}, [I]", << x >>)
               [] OTHER -> Format("ILLEGAL ${:X}", << instruction.value_ >>))
       [] OTHER -> Format("ILLEGAL ${:X}", << instruction.value_ >>)

(***************************************************************************)
(* The orchestrator (vm_instance.h, vm_instance.cpp).                      *)
(*                                                                         *)
(* The operations on the machine are written as operators on a record m    *)
(* of the members a Step can change, so that RunForOneFrame can chain them:*)
(*   m.impl, m.breakpoints_, m.number_of_steps_executed_,                  *)
(*   m.is_playing_tone_, and the observations m.screens (invocations of    *)
(*   update_screen_func_), m.tones (the sound timer values handed to       *)
(*   play_tone_func_ through CalculateDurationOfTone), m.ticks (calls of   *)
(*   DecrementTimers) and m.tone_due (the sound timer has been loaded from *)
(*   zero and play_tone_func_ has not been invoked since).                 *)
(***************************************************************************)
Machine ==
  [impl |-> impl,
   breakpoints_ |-> breakpoints_,
   number_of_steps_executed_ |-> number_of_steps_executed_,
   is_playing_tone_ |-> is_playing_tone_,
   screens |-> 0,
   tones |-> << >>,
   ticks |-> 0,
   tone_due |-> ret.tone_due]

\* A frame rate is a double; the model keeps it as the fraction num / den
\* with den > 0.
Rate(num, den) == [num |-> num, den |-> den]

\* instructions_per_second / desired_frame_rate, truncated towards zero by
\* static_cast<unsigned int>.
StepsPerFrame(instructions_per_second, rate) ==
  (instructions_per_second * rate.den) \div rate.num

\* A SetTiming without the test of the derived steps per frame.
SetTimingOp_NoQuotientTest(instructions_per_second, desired_frame_rate) ==
  IF instructions_per_second = 0 \/ desired_frame_rate.num <= 0
    THEN [result |-> FALSE]
    ELSE [result |-> TRUE,
          target_frame_rate_ |->
            desired_frame_rate.num \div desired_frame_rate.den,
          number_of_steps_per_frame_ |->
            StepsPerFrame(instructions_per_second, desired_frame_rate),
          max_frame_time_ |->
            Rate(kSecInMs * desired_frame_rate.den, desired_frame_rate.num),
          instructions_per_sec_ |-> instructions_per_second,
          frame_rate_ |-> desired_frame_rate]

\* SetTiming: the value returned and, when true, the new timing members.
SetTimingOp(instructions_per_second, desired_frame_rate) ==
  IF instructions_per_second = 0 \/ desired_frame_rate.num <= 0
    THEN [result |-> FALSE]
    ELSE IF instructions_per_second * desired_frame_rate.den
              < desired_frame_rate.num
           THEN [result |-> FALSE]
           ELSE [result |-> TRUE,
                 target_frame_rate_ |->
                   desired_frame_rate.num \div desired_frame_rate.den,
                 number_of_steps_per_frame_ |->
                   StepsPerFrame(instructions_per_second, desired_frame_rate),
                 max_frame_time_ |->
                   Rate(kSecInMs * desired_frame_rate.den,
                        desired_frame_rate.num),
                 instructions_per_sec_ |-> instructions_per_second,
                 frame_rate_ |-> desired_frame_rate]

DecrementTimers(m) ==
  LET m1 == IF m.impl.sound_timer_ > 0
              THEN LET m0 == IF ~m.is_playing_tone_ /\ play_tone_func_
                               THEN [m EXCEPT !.tones =
                                        Append(@, m.impl.sound_timer_),
                                      !.tone_due = FALSE,
                                      !.is_playing_tone_ = TRUE]
                               ELSE m
                   IN [m0 EXCEPT !.impl.sound_timer_ = @ - 1]
              ELSE [m EXCEPT !.is_playing_tone_ = FALSE]
      m2 == [m1 EXCEPT !.ticks = @ + 1]
  IN IF m2.impl.delay_timer_ > 0
       THEN [m2 EXCEPT !.impl.delay_timer_ = @ - 1]
       ELSE m2

CheckTimers(m) ==
  IF m.number_of_steps_executed_ % (kMaxTimerSteps + 1) = kMaxTimerSteps
    THEN DecrementTimers(m)
    ELSE m

\* A Reset that leaves the tone flag as it is.
VMReset_KeepsToneFlag(m) ==
  [m EXCEPT !.impl = ImplReset(m.impl),
            !.number_of_steps_executed_ = 0,
            !.tone_due = FALSE]

\* VMInstance::Reset
VMReset(m) ==
  [m EXCEPT !.impl = ImplReset(m.impl),
            !.number_of_steps_executed_ = 0,
            !.is_playing_tone_ = FALSE,
            !.tone_due = FALSE]

\* std::find_if over breakpoints_: the index of the first entry whose address
\* is the program counter, or 0.
FindIf(m) ==
  LET matches == {i \in 1..Len(m.breakpoints_) :
                    m.breakpoints_[i].first = m.impl.program_counter_}
  IN IF matches = {} THEN 0
     ELSE CHOOSE i \in matches : \A j \in matches : i <= j

Erase(seq, i) ==
  [j \in 1..(Len(seq) - 1) |-> IF j < i THEN seq[j] ELSE seq[j + 1]]

\* The test `if ((*bp_found).second)`: the flag converted to bool.
ClearsOnTrigger(second) == second # 0

\* Step on a breakpoint match at index bp_found.
BreakpointReached(m, bp_found) ==
  [m |-> IF ClearsOnTrigger(m.breakpoints_[bp_found].second)
           THEN [m EXCEPT !.breakpoints_ = Erase(@, bp_found)]
           ELSE m,
   result |-> "kBreakpointReached"]

\* Step past the breakpoint check: the timers, the engine's Step, the step
\* counter and the screen update.
StepInstruction(m, rnd) ==
  LET m1 == CheckTimers(m)
      r == ImplStep(m1.impl, rnd)
      m2 == [m1 EXCEPT !.impl = r.impl,
                       !.number_of_steps_executed_ = @ + 1,
                       !.tone_due = @ \/ (m1.impl.sound_timer_ = 0
                                          /\ r.impl.sound_timer_ > 0)]
  IN IF r.result = "undefined"
       THEN [m |-> m, result |-> "undefined"]
       ELSE [m |-> IF update_screen_func_
                        /\ m2.number_of_steps_executed_
                             % number_of_steps_per_frame_
                           = number_of_steps_per_frame_ - 1
                     THEN [m2 EXCEPT !.screens = @ + 1]
                     ELSE m2,
             result |-> r.result]

\* A Step that checks the timers before it looks for a breakpoint.
VMStepOp_TimersFirst(m, rnd) ==
  IF FindIf(m) # 0 THEN BreakpointReached(CheckTimers(m), FindIf(m))
                   ELSE StepInstruction(m, rnd)

\* VMInstance::Step; rnd is the number the random engine would hand out.
VMStepOp(m, rnd) ==
  IF FindIf(m) # 0 THEN BreakpointReached(m, FindIf(m))
                   ELSE StepInstruction(m, rnd)

\* The numbers the random engine can hand to the Step about to run: RND is
\* the only instruction that draws one.
RandomChoices(m) ==
  IF FindIf(m) = 0 /\ ~IsHaltedUntilKeyPress(m.impl) /\ FetchInBounds(m.impl)
       /\ FetchAndDecodeInstruction(m.impl).group_ = kRND
    THEN kMinRandomValue..kMaxRandomValue
    ELSE {kMinRandomValue}

VMStepOutcomes(m) == {VMStepOp(m, rnd) : rnd \in RandomChoices(m)}

\* A frame loop that does not stop for a machine waiting for a key.
FrameGoesOn_WhileHalted(step_result) ==
  step_result \in {"kSuccess", "kHaltUntilKeyPress"}

\* The loop of RunForOneFrame goes on after a Step that returned step_result.
FrameGoesOn(step_result) == step_result = "kSuccess"

RECURSIVE RunFrom(_, _)
\* The loop of RunForOneFrame once the Steps it has called have returned
\* `steps`: every way it can end.
RunFrom(m, steps) ==
  IF Len(steps) >= number_of_steps_per_frame_
    THEN {[m |-> m, result |-> "kSuccess", steps |-> steps]}
    ELSE UNION {IF ~FrameGoesOn(o.result)
                  THEN {[m |-> o.m, result |-> o.result,
                         steps |-> Append(steps, o.result)]}
                  ELSE RunFrom(o.m, Append(steps, o.result))
                : o \in VMStepOutcomes(m)}

RunForOneFrameOutcomes(m) == RunFrom(m, << >>)

\* A LoadProgram that resets the machine before it looks at the size.
LoadProgramOp_ResetsFirst(m, program_data) ==
  IF program_data.size > kMaxProgramSize
    THEN [m |-> VMReset(m), result |-> FALSE]
    ELSE LET m1 == VMReset(m)
             target == kProgramArea..(kProgramArea + program_data.size - 1)
         IN [m |-> [m1 EXCEPT !.impl.memory_ =
                      WriteBytes(@, target,
                                 [a \in {kProgramArea + i :
                                           i \in DOMAIN program_data.bytes} |->
                                    program_data.bytes[a - kProgramArea]])],
                 result |-> TRUE]

\* VMInstance::LoadProgram
LoadProgramOp(m, program_data) ==
  IF program_data.size > kMaxProgramSize
    THEN [m |-> m, result |-> FALSE]
    ELSE LET m1 == VMReset(m)
             target == kProgramArea..(kProgramArea + program_data.size - 1)
         IN [m |-> [m1 EXCEPT !.impl.memory_ =
                      WriteBytes(@, target,
                                 [a \in {kProgramArea + i :
                                           i \in DOMAIN program_data.bytes} |->
                                    program_data.bytes[a - kProgramArea]])],
                 result |-> TRUE]

(***************************************************************************)
(* The debugger's stepping aids.  Each pushes {stop_pc, true} onto          *)
(* breakpoints_; true is the flag value 1.                                 *)
(***************************************************************************)
\* The cells pc, pc + 2, ... below kInternalMemory that PrepareForStepInto
\* decodes to a CALL.  A CALL's high byte is not zero.
CallCells(g) ==
  {pc \in DOMAIN g.memory_ :
     /\ pc >= g.program_counter_
     /\ pc < kInternalMemory
     /\ (pc - g.program_counter_) % kInstructionLength = 0
     /\ GetGroup(g.memory_[pc] * 256) = kCALL_Address}

\* The scan gets to pc = kInternalMemory - 1 and reads memory_[pc + 1], one
\* past the array: the counter is odd and no earlier cell is a CALL.
ScanLeavesMemory(g) ==
  /\ g.program_counter_ < kInternalMemory
  /\ g.program_counter_ % kInstructionLength = 1
  /\ \A pc \in CallCells(g) : pc = kInternalMemory - 1

\* VMInstance::PrepareForStepInto
PrepareForStepIntoOp(m) ==
  LET g == m.impl
      calls == CallCells(g)
      pc == CHOOSE c \in calls : \A d \in calls : c <= d
      instruction == Instruction(Byte(g.memory_, pc) * 256
                                   + Byte(g.memory_, pc + 1))
  IN IF ScanLeavesMemory(g)
       THEN [m |-> m, result |-> "undefined"]
       ELSE IF calls = {}
              THEN [m |-> m, result |-> "kNoSubroutine"]
              ELSE [m |-> [m EXCEPT !.breakpoints_ =
                             Append(@, [first |-> instruction.address_,
                                        second |-> 1])],
                    result |-> "kSuccess"]

\* VMInstance::PrepareForStepOver: the Instruction is built from pc.
PrepareForStepOverOp(m) ==
  LET pc == m.impl.program_counter_ + kInstructionLength
      instruction == Instruction(pc)
      stop_pc == IF instruction.group_ = kCALL_Address
                   THEN instruction.address_ + kInstructionLength
                   ELSE pc
  IN [m |-> [m EXCEPT !.breakpoints_ =
               Append(@, [first |-> stop_pc, second |-> 1])],
      result |-> "kSuccess"]

\* A PrepareForStepOut that takes the return address of the caller's caller.
PrepareForStepOutOp_BelowTop(m) ==
  IF m.impl.stack_pointer_ < 0
    THEN [m |-> m, result |-> "kNotInSubroutine"]
    ELSE [m |-> [m EXCEPT !.breakpoints_ =
                   Append(@, [first |-> m.impl.stack_[
                                 IF m.impl.stack_pointer_ > 0
                                   THEN m.impl.stack_pointer_ - 1 ELSE 0],
                              second |-> 1])],
          result |-> "kSuccess"]

\* VMInstance::PrepareForStepOut
PrepareForStepOutOp(m) ==
  IF m.impl.stack_pointer_ < 0
    THEN [m |-> m, result |-> "kNotInSubroutine"]
    ELSE [m |-> [m EXCEPT !.breakpoints_ =
                   Append(@, [first |-> m.impl.stack_[m.impl.stack_pointer_],
                              second |-> 1])],
          result |-> "kSuccess"]

(***************************************************************************)
(* Guest programs the host loads.  An instruction word is written as       *)
(* group * 4096 + operands; Bytes lays the words out high byte first, the   *)
(* first byte at index `from` of the container.                            *)
(***************************************************************************)
Bytes(words, from) ==
  NonZero([i \in from..(from + 2 * Len(words) - 1) |->
             IF (i - from) % 2 = 0 THEN words[(i - from) \div 2 + 1] \div 256
                                   ELSE words[(i - from) \div 2 + 1] % 256])

Program(words) == [size |-> 2 * Len(words), bytes |-> Bytes(words, 0)]

CLS == kControlFlowAndScreen * 4096 + kCLS
RET == kControlFlowAndScreen * 4096 + kRET
JP(addr) == kJP_Address * 4096 + addr
CALL(addr) == kCALL_Address * 4096 + addr
SE(x, byte) == kSE_Vx_Imm * 4096 + x * 256 + byte
SNE(x, byte) == kSNE_Vx_Imm * 4096 + x * 256 + byte
LD(x, byte) == kLD_Vx_Imm * 4096 + x * 256 + byte
LD_I(addr) == kLD_I_Addr * 4096 + addr
JP_V0(addr) == kJP_V0_Addr * 4096 + addr
RND(x, byte) == kRND * 4096 + x * 256 + byte
DRW(x, y, n) == kDRW * 4096 + x * 256 + y * 16 + n
SKP(x) == kKeyboardControlFlow * 4096 + x * 256 + kSKP
SKNP(x) == kKeyboardControlFlow * 4096 + x * 256 + kSKNP
LD_K(x) == kTimerAndMemoryControl * 4096 + x * 256 + kLD_Vx_K
LD_DT(x) == kTimerAndMemoryControl * 4096 + x * 256 + kLD_DT_Vx
LD_ST(x) == kTimerAndMemoryControl * 4096 + x * 256 + kLD_ST_Vx
LD_B(x) == kTimerAndMemoryControl * 4096 + x * 256 + kLD_B_Vx
\* 8xyN with N one of the kMath numbers, and FxNN with NN one of the timer
\* and memory numbers.
MathWord(x, y, nibble) == kMath * 4096 + x * 256 + y * 16 + nibble
TimerAndMemoryWord(x, byte) == kTimerAndMemoryControl * 4096 + x * 256 + byte

\* Seventeen places of two words each, 0x200, 0x21C, 0x238, ..., visited in
\* an order that is not the order of their addresses: NestedSite(1) is the
\* start of the program and NestedSite(18) is NestedSite(1) again.
NestedSite(i) == kProgramArea + 2 * kInstructionLength * ((7 * (i - 1)) % 17)

\* k nested calls: the CALL at NestedSite(i), i <= k, goes to
\* NestedSite(i + 1), and every other word is a RET.
NestedProgram(k) ==
  Program([w \in 1..(2 * 17) |->
             LET i == CHOOSE j \in 1..17 :
                        NestedSite(j) = kProgramArea + 4 * ((w - 1) \div 2)
             IN IF w % 2 = 1 /\ i <= k THEN CALL(NestedSite(i + 1))
                                       ELSE RET])

\* 0x200..0x220: seventeen CALLs, each to the next word.
NestedCalls == [i \in 1..17 |-> CALL(kProgramArea + 2 * i)]

\* A subroutine that waits for a key, then a RET on an empty stack.
CallAndReturn ==
  << CALL(kProgramArea + 6), RET, 0, LD_K(2), SKP(2), SKNP(2), RET >>

\* Skips taken and not taken, then a key index out of range.
SkipsAndKeys ==
  << SE(0, 0), 0, SNE(0, 0), LD(1, 16), RND(3, 1), SKP(1) >>

\* A loop that keeps both timers loaded.
TimersLoop == << LD(0, 3), LD_ST(0), LD_DT(0), JP(kProgramArea) >>

\* A sprite that runs off the end of memory and a BCD store there.
SpriteAtEnd == << LD_I(kInternalMemory - 1), DRW(0, 0, 2) >>
BcdAtEnd == << LD_I(kInternalMemory - 2), LD_B(0) >>

\* Jumps to the last byte of memory and past it.
JumpOdd == << JP(kInternalMemory - 1) >>
JumpOffset == << LD(0, 255), JP_V0(kInternalMemory - 1) >>

\* A program that fills the whole program area: a jump to its last word,
\* which is a CLS.
FullProgram ==
  [size |-> kMaxProgramSize,
   bytes |-> Bytes(<< JP(kProgramCounter) >>, 0)
               @@ Bytes(<< CLS >>, kMaxProgramSize - 2)]

\* One byte more than fits.
TooLarge ==
  [size |-> kMaxProgramSize + 1,
   bytes |-> Bytes(<< LD(0, 1) >>, 0) @@ Bytes(<< RET >>, kMaxProgramSize)]

\* Sounds a one-tick tone again and again.
ToneLoop == << LD(0, 1), LD_ST(0), JP(kProgramArea) >>
\* Draws the font's 0 at the origin, then waits for a key.
DrawDigit == << DRW(0, 0, kFontLength), LD_K(1), LD_DT(1) >>
\* Enters a subroutine that returns at once.
CallOnce == << CALL(kProgramArea + 4), JP(kProgramArea), RET >>

\* The programs the host loads; the one written out here is SKNP and SKP of
\* a register that holds 0, 1, 16 or 17.
Programs ==
  { Program(NestedCalls), Program(CallAndReturn), Program(SkipsAndKeys),
    Program(<< RND(1, 17), SKNP(1), SKP(1), SKP(1),
               JP(kInternalMemory - 1) >>),
    Program(TimersLoop), Program(SpriteAtEnd), Program(BcdAtEnd),
    Program(JumpOdd), Program(CallOnce),
    Program(JumpOffset), FullProgram, TooLarge }

\* The programs run under the debugger and by the worker.
DebuggedPrograms ==
  { Program(CallAndReturn), Program(SkipsAndKeys), Program(TimersLoop) }

\* The programs run while the timing is changed.
TimerPrograms == { Program(ToneLoop), Program(TimersLoop) }

\* The programs a reset interrupts.
ResetPrograms == { Program(ToneLoop), Program(CallOnce), Program(DrawDigit) }

\* The programs stepped through in the debugger.
SteppedPrograms ==
  { Program(CallOnce), Program(NestedCalls), Program(ToneLoop),
    Program(JumpOdd) }

\* The programs that exercise single instructions of the interpreter.  RND
\* with a mask draws the operands: 0x83 and 0x81 give register values on
\* both sides of 128, 0x22, 0x3C and 0x1C give sprite positions up to the
\* right and the bottom edge of the screen.
\*   - ADD, SUB and SUBN of V1 with V2 and with VF;
\*   - the font's 0 (I_ = 0 after a reset) drawn twice at (Vx, Vy), the
\*     flag register among the two coordinate registers;
\*   - a sprite of four rows of which two lie in memory_ (0x81 and 0xFF,
\*     stored in its last two bytes by Fx55), drawn over the font's 0, and
\*     a sprite at I_ = kInternalMemory;
\*   - LD B of every register value at I_ inside memory_ (the program then
\*     jumps to the last byte of memory_, where its run ends), and LD B at
\*     the end of memory_;
\*   - Fx55 and Fx65 of V0..Vx over the program's first bytes, at the end
\*     of memory_ and after ADD I has moved I_ past it;
\*   - SE and SNE of V1 with 129 and with V2, in front of a CLS and of a
\*     jump (the run ends at the last byte of memory_).
InterpreterPrograms ==
  { Program(<< RND(1, 131), RND(y, 129), MathWord(1, y, op) >>) :
      y \in {2, 15}, op \in {kMathADD, kMathSUB, kMathSUBN} }
  \cup
  { Program(<< RND(r[1], 34), RND(r[2], 28), DRW(r[1], r[2], kFontLength),
              DRW(r[1], r[2], kFontLength) >>) :
      r \in { <<0, 1>>, <<15, 1>>, <<0, 15>> } }
  \cup
  { Program(<< LD(0, 129), LD(1, 255), LD_I(kInternalMemory - 2),
               TimerAndMemoryWord(1, kLD_I_Vx), RND(2, 60), LD_I(0),
               DRW(2, 3, kFontLength), LD_I(kInternalMemory - 2),
               DRW(2, 3, 4) >>),
    Program(<< LD_I(kInternalMemory - 1), LD(0, 1),
               TimerAndMemoryWord(0, kADD_I_Vx), DRW(0, 1, 1) >>) }
  \cup
  { Program(<< RND(0, 255), LD_I(768), LD_B(0),
               JP(kInternalMemory - 1) >>) }
  \cup
  { Program(<< RND(0, 129), LD_I(a), LD_B(0) >>) :
      a \in {kInternalMemory - 3, kInternalMemory - 2, kInternalMemory - 1} }
  \cup
  { Program(<< LD(0, 7), LD(1, 9), LD_I(a), TimerAndMemoryWord(x, op) >>) :
      a \in {kProgramArea, kInternalMemory - 1},
      x \in {0, 2}, op \in {kLD_I_Vx, kLD_Vx_I} }
  \cup
  { Program(<< LD_I(kInternalMemory - 1), LD(0, 255),
               TimerAndMemoryWord(0, kADD_I_Vx),
               TimerAndMemoryWord(0, op) >>) : op \in {kLD_I_Vx, kLD_Vx_I} }
  \cup
  { Program(<< RND(1, 129), RND(2, 129), skip, skipped,
               JP(kInternalMemory - 1), JP(kInternalMemory - 1) >>) :
      skip \in { SE(1, 129), SNE(1, 129),
                 kSE_Vx_Vy * 4096 + 1 * 256 + 2 * 16,
                 kSNE_Vx_Vy * 4096 + 1 * 256 + 2 * 16 },
      skipped \in { CLS, JP(kInternalMemory - 1) } }

\* Inputs of the host.
HostKeys == (0..MaxKey) \cup {kKeypad - 1}
TimingInputs ==
  { <<kDefaultInstructionsPerSecond, Rate(kDefaultFrameRate, 1)>>,
    <<120, Rate(60, 1)>>, <<0, Rate(60, 1)>>, <<30, Rate(60, 1)>>,
    <<120, Rate(0, 1)>> }
\* Arguments of SetInstructionsPerSecond and of SetFrameRate (a double: 0.5,
\* 29.97 and a negative rate among them).
InstructionRates == {0, 1, 29, 90, 1000}
FrameRates ==
  { Rate(0, 1), Rate(0 - 1, 1), Rate(1, 2), Rate(30, 1), Rate(2997, 100),
    Rate(1000, 1) }
BreakpointAddresses == {kProgramArea, kProgramArea + 6}

(***************************************************************************)
(* The state machine.                                                      *)
(***************************************************************************)
Called(op, arg, result, steps, m) ==
  [op |-> op, arg |-> arg, result |-> result, steps |-> steps,
   screens |-> m.screens, tones |-> m.tones, ticks |-> m.ticks,
   tone_due |-> m.tone_due, signals |-> << >>]

BoolResult(b) == IF b THEN "true" ELSE "false"

\* The members of m written back to the machine.
Store(m) ==
  /\ impl' = m.impl
  /\ breakpoints_' = m.breakpoints_
  /\ number_of_steps_executed_' = m.number_of_steps_executed_
  /\ is_playing_tone_' = m.is_playing_tone_

timing == <<number_of_steps_per_frame_, instructions_per_sec_,
            target_frame_rate_, max_frame_time_, frame_rate_>>
callbacks == <<update_screen_func_, play_tone_func_>>

\* VMInstance::VMInstance(): SetTiming with the defaults, then Reset.
InitMachine ==
  LET t == SetTimingOp(kDefaultInstructionsPerSecond,
                       Rate(kDefaultFrameRate, 1))
  IN /\ impl = ImplReset(Unconstructed)
     /\ breakpoints_ = << >>
     /\ number_of_steps_executed_ = 0
     /\ is_playing_tone_ = FALSE
     /\ number_of_steps_per_frame_ = t.number_of_steps_per_frame_
     /\ instructions_per_sec_ = t.instructions_per_sec_
     /\ target_frame_rate_ = t.target_frame_rate_
     /\ max_frame_time_ = t.max_frame_time_
     /\ frame_rate_ = t.frame_rate_
     /\ update_screen_func_ = FALSE
     /\ play_tone_func_ = FALSE
     /\ ret = [op |-> "VMInstance", arg |-> "none", result |-> "none",
               steps |-> << >>, screens |-> 0, tones |-> << >>,
               ticks |-> 0, tone_due |-> FALSE, signals |-> << >>]
     /\ ub = FALSE
     /\ vm_thread_ = [at |-> "finished", steps |-> << >>,
                      interruption_requested |-> FALSE, host |-> "idle"]

\* The machine constructed in a build whose uint_fast8_t has 8 bits, as the
\* usual desktop ones have.
Init == InitMachine /\ uint_fast8_bits = 8

\* The machine constructed in any build: uint_fast8_t has at least 8 bits,
\* and 16 bits stand for every build that makes it wider.
InitBuild == InitMachine /\ uint_fast8_bits \in {8, 16}

\* The machine constructed in the 8-bit build and loaded with a program of
\* one instruction word, any of `values`.
InitLoaded(values) ==
  LET t == SetTimingOp(kDefaultInstructionsPerSecond,
                       Rate(kDefaultFrameRate, 1))
      constructed == [impl |-> ImplReset(Unconstructed),
                      breakpoints_ |-> << >>,
                      number_of_steps_executed_ |-> 0,
                      is_playing_tone_ |-> FALSE,
                      screens |-> 0, tones |-> << >>, ticks |-> 0,
                      tone_due |-> FALSE]
  IN \E value \in values :
       LET program_data == Program(<< value >>)
           o == LoadProgramOp(constructed, program_data)
       IN /\ impl = o.m.impl
          /\ breakpoints_ = o.m.breakpoints_
          /\ number_of_steps_executed_ = o.m.number_of_steps_executed_
          /\ is_playing_tone_ = o.m.is_playing_tone_
          /\ number_of_steps_per_frame_ = t.number_of_steps_per_frame_
          /\ instructions_per_sec_ = t.instructions_per_sec_
          /\ target_frame_rate_ = t.target_frame_rate_
          /\ max_frame_time_ = t.max_frame_time_
          /\ frame_rate_ = t.frame_rate_
          /\ update_screen_func_ = FALSE
          /\ play_tone_func_ = FALSE
          /\ ret = Called("LoadProgram", program_data, BoolResult(o.result),
                          << >>, o.m)
          /\ ub = FALSE
          /\ vm_thread_ = [at |-> "finished", steps |-> << >>,
                           interruption_requested |-> FALSE,
                           host |-> "idle"]
          /\ uint_fast8_bits = 8

\* VMThread::VMThread registers both callbacks.
RegisterCallbacks ==
  /\ ~ub
  /\ ~(update_screen_func_ /\ play_tone_func_)
  /\ update_screen_func_' = TRUE
  /\ play_tone_func_' = TRUE
  /\ ret' = Called("RegisterCallbacks", "none", "none", << >>, Machine)
  /\ UNCHANGED <<uint_fast8_bits, vm_thread_,
                 impl, breakpoints_, number_of_steps_executed_,
                 is_playing_tone_, timing, ub>>

Reset ==
  /\ ~ub
  /\ Store(VMReset(Machine))
  /\ ret' = Called("Reset",
                   <<number_of_steps_executed_, is_playing_tone_>>,
                   "none", << >>, VMReset(Machine))
  /\ UNCHANGED <<uint_fast8_bits, vm_thread_, timing, callbacks, ub>>

\* The host loads one of `programs`.
LoadProgram(programs) ==
  /\ ~ub
  /\ \E program_data \in programs :
       LET o == LoadProgramOp(Machine, program_data)
       IN /\ Store(o.m)
          /\ ret' = Called("LoadProgram", program_data, BoolResult(o.result),
                          << >>, o.m)
  /\ UNCHANGED <<uint_fast8_bits, vm_thread_, timing, callbacks, ub>>

Step ==
  /\ ~ub
  /\ number_of_steps_executed_ < MaxSteps
  /\ \E o \in VMStepOutcomes(Machine) :
       /\ Store(o.m)
       /\ ub' = (o.result = "undefined")
       /\ ret' = Called("Step", "none", o.result, << o.result >>, o.m)
  /\ UNCHANGED <<uint_fast8_bits, vm_thread_, timing, callbacks>>

RunForOneFrame ==
  /\ ~ub
  /\ number_of_steps_executed_ + number_of_steps_per_frame_ <= MaxSteps
  /\ \E o \in RunForOneFrameOutcomes(Machine) :
       /\ Store(o.m)
       /\ ub' = (o.result = "undefined")
       /\ ret' = Called("RunForOneFrame", "none", o.result, o.steps, o.m)
  /\ UNCHANGED <<uint_fast8_bits, vm_thread_, timing, callbacks>>

SetKeyState ==
  /\ ~ub
  /\ \E key \in HostKeys, state \in {kPressed, kReleased} :
       /\ impl' = SetKeyStateOp(impl, key, state)
       /\ ret' = Called("SetKeyState", <<key, state>>, "none", << >>,
                        Machine)
  /\ UNCHANGED <<uint_fast8_bits, vm_thread_,
                 breakpoints_, number_of_steps_executed_, is_playing_tone_,
                 timing, callbacks, ub>>

SetTiming ==
  /\ ~ub
  /\ \E input \in TimingInputs :
       LET t == SetTimingOp(input[1], input[2])
       IN IF ~t.result
            THEN /\ UNCHANGED timing
                 /\ ret' = Called("SetTiming", input, "false", << >>, Machine)
            ELSE /\ number_of_steps_per_frame_' = t.number_of_steps_per_frame_
                 /\ instructions_per_sec_' = t.instructions_per_sec_
                 /\ target_frame_rate_' = t.target_frame_rate_
                 /\ max_frame_time_' = t.max_frame_time_
                 /\ frame_rate_' = t.frame_rate_
                 /\ ret' = Called("SetTiming", input, "true", << >>, Machine)
  /\ UNCHANGED <<uint_fast8_bits, vm_thread_,
                 impl, breakpoints_, number_of_steps_executed_,
                 is_playing_tone_, callbacks, ub>>

\* A call SetTiming(instructions_per_second, desired_frame_rate) made on
\* behalf of the public operation op.
TimingCall(op, arg, instructions_per_second, desired_frame_rate) ==
  LET t == SetTimingOp(instructions_per_second, desired_frame_rate)
  IN /\ IF ~t.result
          THEN /\ UNCHANGED timing
               /\ ret' = Called(op, arg, "false", << >>, Machine)
          ELSE /\ number_of_steps_per_frame_' = t.number_of_steps_per_frame_
               /\ instructions_per_sec_' = t.instructions_per_sec_
               /\ target_frame_rate_' = t.target_frame_rate_
               /\ max_frame_time_' = t.max_frame_time_
               /\ frame_rate_' = t.frame_rate_
               /\ ret' = Called(op, arg, "true", << >>, Machine)
     /\ UNCHANGED <<uint_fast8_bits, vm_thread_,
                    impl, breakpoints_, number_of_steps_executed_,
                    is_playing_tone_, callbacks, ub>>

\* VMInstance::SetInstructionsPerSecond pairs its argument with frame_rate_.
SetInstructionsPerSecond ==
  /\ ~ub
  /\ \E instructions_per_second \in InstructionRates :
       TimingCall("SetInstructionsPerSecond", instructions_per_second,
                  instructions_per_second, frame_rate_)

\* VMInstance::SetFrameRate pairs its argument with instructions_per_sec_.
SetFrameRate ==
  /\ ~ub
  /\ \E frame_rate \in FrameRates :
       TimingCall("SetFrameRate", frame_rate, instructions_per_sec_,
                  frame_rate)

\* The debugger appends to breakpoints_: run-to-cursor with
\* kClearAfterTrigger, a double click with kPreserve.
AddBreakpoint ==
  /\ ~ub
  /\ Len(breakpoints_) < MaxBreakpoints
  /\ \E address \in BreakpointAddresses,
        flags \in {kClearAfterTrigger, kPreserve} :
       /\ breakpoints_' = Append(breakpoints_,
                                 [first |-> address, second |-> flags])
       /\ ret' = Called("AddBreakpoint", <<address, flags>>, "none", << >>,
                        Machine)
  /\ UNCHANGED <<uint_fast8_bits, vm_thread_,
                 impl, number_of_steps_executed_, is_playing_tone_,
                 timing, callbacks, ub>>

\* The debugger's Step Into, Step Over and Step Out.
PrepareForStepInto ==
  /\ ~ub
  /\ Len(breakpoints_) < MaxBreakpoints
  /\ LET o == PrepareForStepIntoOp(Machine)
     IN /\ Store(o.m)
        /\ ub' = (o.result = "undefined")
        /\ ret' = Called("PrepareForStepInto", "none", o.result, << >>, o.m)
  /\ UNCHANGED <<uint_fast8_bits, vm_thread_, timing, callbacks>>

PrepareForStepOver ==
  /\ ~ub
  /\ Len(breakpoints_) < MaxBreakpoints
  /\ LET o == PrepareForStepOverOp(Machine)
     IN /\ Store(o.m)
        /\ ret' = Called("PrepareForStepOver", "none", o.result, << >>, o.m)
  /\ UNCHANGED <<uint_fast8_bits, vm_thread_, timing, callbacks, ub>>

PrepareForStepOut ==
  /\ ~ub
  /\ Len(breakpoints_) < MaxBreakpoints
  /\ LET o == PrepareForStepOutOp(Machine)
     IN /\ Store(o.m)
        /\ ret' = Called("PrepareForStepOut", "none", o.result, << >>, o.m)
  /\ UNCHANGED <<uint_fast8_bits, vm_thread_, timing, callbacks, ub>>

\* InterpreterImplementation::Step called on impl_ itself, as the unit tests
\* of the implementation do: no breakpoint is looked for, no step is counted
\* and no timer is checked.
StepImplementation ==
  /\ ~ub
  /\ \E rnd \in RandomChoices([Machine EXCEPT !.breakpoints_ = << >>]) :
       LET o == ImplStep(impl, rnd)
       IN /\ impl' = o.impl
          /\ ub' = (o.result = "undefined")
          /\ ret' = Called("impl_->Step", "none", o.result, << >>, Machine)
  /\ UNCHANGED <<breakpoints_, number_of_steps_executed_, is_playing_tone_,
                 uint_fast8_bits, vm_thread_, timing, callbacks>>

\* DebuggerDisasmModel::data for the disassembly column of the row of the
\* program counter: the word there is decoded and disassembled, the machine
\* is not touched.  ret.arg is the decoded Instruction, ret.result the
\* string.
Disassemble ==
  /\ ~ub
  /\ FetchInBounds(impl)
  /\ ret' = Called("DisassembleInstruction", FetchAndDecodeInstruction(impl),
                   DisassembleInstruction(FetchAndDecodeInstruction(impl)),
                   << >>, Machine)
  /\ UNCHANGED <<impl, breakpoints_, number_of_steps_executed_,
                 is_playing_tone_, uint_fast8_bits, vm_thread_, timing,
                 callbacks, ub>>

(***************************************************************************)
(* The frontend: the worker thread (vm_thread.cpp) and the handlers of the  *)
(* GUI thread that work on its machine (vm_tutorial_app.cpp).  The GUI      *)
(* thread runs one handler at a time; the worker runs beside it, one Step  *)
(* of its frame at a time.                                                 *)
(***************************************************************************)
\* A wait that returns whether or not run has returned.
WaitReturns_AtOnce(t) == TRUE

\* QThread::wait() returns once run() has returned.
WaitReturns(t) == t.at = "finished"

\* QThread::start(): run() begins, with the interruption flag cleared,
\* unless the thread is running already.
Start(t) ==
  IF t.at = "finished"
    THEN [t EXCEPT !.at = "loop", !.steps = << >>,
                   !.interruption_requested = FALSE]
    ELSE t

\* The ResumeEmulation handler: start().
ResumeEmulation ==
  /\ ~ub
  /\ vm_thread_.host = "idle"
  /\ vm_thread_.at = "finished"
  /\ vm_thread_' = Start(vm_thread_)
  /\ UNCHANGED <<impl, breakpoints_, number_of_steps_executed_,
                 is_playing_tone_, timing, callbacks, ret, ub,
                 uint_fast8_bits>>

\* VMThread::StopExecution as far as its wait(), called by the
\* PauseEmulation handler ("pause", offered while the machine runs) or by
\* the ResetEmulation and StartROM handlers ("load").  requestInterruption
\* sets the flag of a running thread.
StopExecution ==
  /\ ~ub
  /\ vm_thread_.host = "idle"
  /\ \E handler \in {"pause", "load"} :
       /\ handler = "pause" => vm_thread_.at # "finished"
       /\ vm_thread_' =
            [vm_thread_ EXCEPT
               !.interruption_requested = @ \/ vm_thread_.at # "finished",
               !.host = handler]
  /\ UNCHANGED <<impl, breakpoints_, number_of_steps_executed_,
                 is_playing_tone_, timing, callbacks, ret, ub,
                 uint_fast8_bits>>

\* wait() returns and the handler goes on: PauseEmulation is done; the
\* ResetEmulation and StartROM handlers load the program and start the
\* worker.
StopExecutionReturns ==
  /\ ~ub
  /\ vm_thread_.host # "idle"
  /\ WaitReturns(vm_thread_)
  /\ IF vm_thread_.host = "pause"
       THEN /\ vm_thread_' = [vm_thread_ EXCEPT !.host = "idle"]
            /\ UNCHANGED <<impl, breakpoints_, number_of_steps_executed_,
                           is_playing_tone_, ret>>
       ELSE \E program_data \in ResetPrograms :
              LET o == LoadProgramOp(Machine, program_data)
              IN /\ Store(o.m)
                 /\ ret' = Called("LoadProgram", program_data,
                                 BoolResult(o.result), << >>, o.m)
                 /\ vm_thread_' = Start([vm_thread_ EXCEPT !.host = "idle"])
  /\ UNCHANGED <<timing, callbacks, ub, uint_fast8_bits>>

\* The CHIP8KeyPress and CHIP8KeyRelease handlers: SetKeyState on the
\* worker's machine, and start() after a press that found it halted.  The
\* handler does not stop the worker, so it is enabled wherever the worker
\* is, and falls before or after any Step of a frame in progress.
CHIP8Key ==
  /\ ~ub
  /\ vm_thread_.host = "idle"
  /\ \E key \in HostKeys, state \in {kPressed, kReleased} :
       LET halted_until_key_press == IsHaltedUntilKeyPress(impl)
       IN /\ impl' = SetKeyStateOp(impl, key, state)
          /\ vm_thread_' = IF state = kPressed /\ halted_until_key_press
                             THEN Start(vm_thread_)
                             ELSE vm_thread_
          /\ ret' = Called("SetKeyState", <<key, state>>, "none", << >>,
                           Machine)
  /\ UNCHANGED <<breakpoints_, number_of_steps_executed_, is_playing_tone_,
                 timing, callbacks, ub, uint_fast8_bits>>

\* VMThread::run at `while (!isInterruptionRequested())`: run returns, or
\* the next frame begins (as long as MaxSteps leaves room for a frame).
RunLoopTest ==
  /\ ~ub
  /\ vm_thread_.at = "loop"
  /\ \/ vm_thread_.interruption_requested
     \/ number_of_steps_executed_ + number_of_steps_per_frame_ <= MaxSteps
  /\ vm_thread_' =
       IF vm_thread_.interruption_requested
         THEN [vm_thread_ EXCEPT !.at = "finished"]
         ELSE [vm_thread_ EXCEPT !.at = "frame", !.steps = << >>]
  /\ UNCHANGED <<impl, breakpoints_, number_of_steps_executed_,
                 is_playing_tone_, timing, callbacks, ret, ub,
                 uint_fast8_bits>>

\* One Step of the RunForOneFrame the worker is in.  The frame is over
\* after number_of_steps_per_frame_ Steps, and then the worker sleeps, or
\* at the first Step that does not return kSuccess, and then run returns
\* (quit(), break) after it has emitted ExecutionFailure(step_result)
\* unless the result is kHaltUntilKeyPress.  ret.signals holds the signals
\* emitted.
RunLoopStep ==
  /\ ~ub
  /\ vm_thread_.at = "frame"
  /\ \E o \in VMStepOutcomes(Machine) :
       LET steps == Append(vm_thread_.steps, o.result)
       IN /\ Store(o.m)
          /\ ub' = (o.result = "undefined")
          /\ ret' = [Called("Step", "none", o.result, steps, o.m) EXCEPT
                       !.signals =
                          IF o.result \notin {"kSuccess", "kHaltUntilKeyPress",
                                              "undefined"}
                            THEN << <<"ExecutionFailure", o.result>> >>
                            ELSE << >>]
          /\ vm_thread_' =
               [vm_thread_ EXCEPT
                  !.steps = steps,
                  !.at = IF ~FrameGoesOn(o.result) THEN "finished"
                         ELSE IF Len(steps) >= number_of_steps_per_frame_
                                THEN "sleep"
                                ELSE "frame"]
  /\ UNCHANGED <<timing, callbacks, uint_fast8_bits>>

\* sleep_until(deadline_time_point) returns.
RunLoopSleep ==
  /\ ~ub
  /\ vm_thread_.at = "sleep"
  /\ vm_thread_' = [vm_thread_ EXCEPT !.at = "loop"]
  /\ UNCHANGED <<impl, breakpoints_, number_of_steps_executed_,
                 is_playing_tone_, timing, callbacks, ret, ub,
                 uint_fast8_bits>>

\* The machine driven through the core's own interface: programs are
\* loaded, stepped and reset while the host reports key events.
Next ==
  \/ Reset
  \/ LoadProgram(Programs)
  \/ Step
  \/ SetKeyState

Spec == Init /\ [][Next]_vars

\* The machine under the debugger: single steps with breakpoints set by the
\* host and the callbacks of the worker registered.
NextDebugger ==
  \/ RegisterCallbacks
  \/ LoadProgram(DebuggedPrograms)
  \/ Step
  \/ AddBreakpoint

SpecDebugger == Init /\ [][NextDebugger]_vars

\* The machine run a frame at a time by the worker, under every timing the
\* host configures.
NextFrames ==
  \/ LoadProgram(DebuggedPrograms \cup {Program(NestedCalls)})
  \/ RunForOneFrame
  \/ Step
  \/ SetTiming
  \/ AddBreakpoint

SpecFrames == Init /\ [][NextFrames]_vars

\* The host changing the timing of a machine whose worker has registered
\* its callbacks and runs a program that uses the timers.
NextTimers ==
  \/ RegisterCallbacks
  \/ LoadProgram(TimerPrograms)
  \/ Step
  \/ SetTiming
  \/ SetInstructionsPerSecond
  \/ SetFrameRate

SpecTimers == Init /\ [][NextTimers]_vars

\* The machine reset by the host at any point of a run.
NextReset ==
  \/ RegisterCallbacks
  \/ Reset
  \/ LoadProgram(ResetPrograms)
  \/ Step
  \/ SetKeyState

SpecReset == Init /\ [][NextReset]_vars

\* The machine single-stepped with the debugger's stepping aids.
NextStepping ==
  \/ LoadProgram(SteppedPrograms)
  \/ Step
  \/ PrepareForStepInto
  \/ PrepareForStepOver
  \/ PrepareForStepOut

SpecStepping == Init /\ [][NextStepping]_vars

\* The interpreter stepped through programs that exercise one instruction
\* each.
NextInterpreter ==
  \/ LoadProgram(InterpreterPrograms)
  \/ Step

SpecInterpreter == Init /\ [][NextInterpreter]_vars

\* The frontend: the worker runs frames while the GUI thread's handlers
\* deliver keys, pause, resume, reset and load.
NextThread ==
  \/ ResumeEmulation
  \/ StopExecution
  \/ StopExecutionReturns
  \/ CHIP8Key
  \/ RunLoopTest
  \/ RunLoopStep
  \/ RunLoopSleep

SpecThread == Init /\ [][NextThread]_vars

\* The worker with the debugger window open: breakpoints are set while it
\* runs or rests, and no key is touched.
NextThreadDebugger ==
  \/ ResumeEmulation
  \/ StopExecution
  \/ StopExecutionReturns
  \/ AddBreakpoint
  \/ RunLoopTest
  \/ RunLoopStep
  \/ RunLoopSleep

SpecThreadDebugger == Init /\ [][NextThreadDebugger]_vars

\* The implementation stepped through nested subroutines, one to seventeen
\* deep.
NextNested ==
  \/ LoadProgram({NestedProgram(k) : k \in 1..(kStack + 1)})
  \/ StepImplementation

SpecNested == Init /\ [][NextNested]_vars

\* The worker is a thread of its own: it is scheduled again and again, and
\* its sleep ends.  The last conjunct is WF_vars(RunLoopStep) with the
\* enabling condition of RunLoopStep written out: a Step always has an
\* outcome, so the action is enabled exactly while the worker is in a frame.
FairThread ==
  /\ SpecThread
  /\ WF_vars(RunLoopTest)
  /\ WF_vars(RunLoopSleep)
  /\ \/ []<>(~(~ub /\ vm_thread_.at = "frame"))
     \/ []<><<RunLoopStep>>_vars

\* The same, whatever width the build gives to the registers.
SpecBuilds == InitBuild /\ [][NextInterpreter]_vars

\* The decoder and the disassembler applied to every 16-bit value.
SpecDecoder == InitLoaded(0..(2 ^ 16 - 1)) /\ [][Disassemble]_vars

\* Programs of one instruction word, disassembled and stepped.  The words
\* take every value of every field a switch of Step or of the disassembler
\* looks at: every low byte in the groups 0, E and F, every low nibble in
\* group 8, and each other group; x is 0 or F, and where the rest of the
\* word is an operand it is one of a few values.
NextWords ==
  \/ Step
  \/ Disassemble

SpecWords ==
  /\ InitLoaded(
       { group * 4096 + x * 256 + byte :
           group \in {kControlFlowAndScreen, kKeyboardControlFlow,
                      kTimerAndMemoryControl},
           x \in {0, 15}, byte \in 0..255 }
       \cup { MathWord(x, y, nibble) :
                x \in {0, 15}, y \in {0, 15}, nibble \in 0..15 }
       \cup { group * 4096 + x * 256 + byte :
                group \in (0..15) \ {kControlFlowAndScreen, kMath,
                                      kKeyboardControlFlow,
                                      kTimerAndMemoryControl},
                x \in {0, 15}, byte \in {0, 1, 128, 255} })
  /\ [][NextWords]_vars

(***************************************************************************)
(* Properties.                                                             *)
(***************************************************************************)
\* The instruction word a Step of guest state g fetches.
WordAt(g) ==
  Byte(g.memory_, g.program_counter_) * 256
    + Byte(g.memory_, g.program_counter_ + 1)

\* Where the instruction at the program counter of g sends a Step that does
\* not fault: to the target of a jump, a call or a return, two words on for
\* a taken skip, and to the next word otherwise.
TargetOf(g) ==
  LET w == WordAt(g)
      group == w \div 4096
      Vx == g.V_[(w \div 256) % 16]
      Vy == g.V_[(w \div 16) % 16]
      byte == w % 256
      pc == g.program_counter_
  IN CASE group \in {1, 2} -> w % 4096
       [] group = 11 -> g.V_[0] + (w % 4096)
       [] group = 0 /\ byte = 238 -> g.stack_[g.stack_pointer_]
       [] group = 3 /\ Vx = byte -> pc + 4
       [] group = 4 /\ Vx # byte -> pc + 4
       [] group = 5 /\ Vx = Vy -> pc + 4
       [] group = 9 /\ Vx # Vy -> pc + 4
       [] group = 14 /\ byte = 158 /\ g.keypad_[Vx] = kPressed -> pc + 4
       [] group = 14 /\ byte = 161 /\ g.keypad_[Vx] = kReleased -> pc + 4
       [] OTHER -> pc + 2

\* The pixels a sprite of `rows` rows read at I_ of g covers when its top
\* left corner is at (vx, vy): bit 7 - col of row byte `row` set, at
\* ((vx + col) mod 64, (vy + row) mod 32).
SpritePixels(g, vx, vy, rows) ==
  { ((vy + rc[1]) % kHeight) * kWidth + ((vx + rc[2]) % kWidth) :
      rc \in { q \in (0..(rows - 1)) \X (0..7) :
                 (Byte(g.memory_, g.I_ + q[1]) \div (2 ^ (7 - q[2]))) % 2
                   = 1 } }

\* C1: a Step of a machine that is not halted leaves the program counter
\* where it was when it reports a fault, and moves it to the instruction's
\* next program counter when it reports kSuccess or kHaltUntilKeyPress.
C1_FaultKeepsProgramCounter ==
  [][(ret'.op = "Step" /\ ~impl.halted_until_key_press_ /\ ~ub') =>
       /\ ret'.result \in Faults \cup {"kSuccess", "kHaltUntilKeyPress"}
       /\ ret'.result \in Faults =>
            impl'.program_counter_ = impl.program_counter_
       /\ ret'.result \in {"kSuccess", "kHaltUntilKeyPress"} =>
            impl'.program_counter_ = TargetOf(impl)]_vars

\* A seventeenth CALL has faulted at the address it was fetched from.
C1_Witness ==
  /\ ret.op = "Step"
  /\ ret.result = "kStackOverflow"
  /\ WordAt(impl) \div 4096 = 2
  /\ impl.program_counter_ = kProgramArea + 2 * kStack

C3_ProgramCounterInRange ==
  ~impl.halted_until_key_press_ =>
     impl.program_counter_ \in 0..kProgramCounter

\* C4: a Step of a halted machine returns kHaltUntilKeyPress and the engine
\* changes nothing: the guest state after the Step is the one the engine was
\* handed, that is the one the orchestrator's timer check left.
C4_HaltedStepIsNoOp ==
  [][(ret'.op = "Step" /\ impl.halted_until_key_press_) =>
       /\ ret'.result = "kHaltUntilKeyPress"
       /\ impl' = CheckTimers(Machine).impl
       /\ impl'.halted_until_key_press_
       /\ \A f \in {"V_", "stack_", "memory_", "framebuffer_", "keypad_",
                    "program_counter_", "stack_pointer_", "I_",
                    "key_press_dest_"} : impl'[f] = impl[f]]_vars

\* A machine that halted on its second Step has been stepped until the step
\* counter reached its bound.
C4_Witness ==
  /\ ret.op = "Step"
  /\ ret.result = "kHaltUntilKeyPress"
  /\ impl.halted_until_key_press_
  /\ WordAt([impl EXCEPT !.program_counter_ = @ - 2]) = LD_K(2)
  /\ number_of_steps_executed_ = MaxSteps

\* C5: a halted machine stays halted across Steps and key releases; the
\* first key press stores the key in the register the halting instruction
\* named, clears the halt flag and marks the key pressed, all at once.  On a
\* machine that is not halted SetKeyState changes the entry of its key only.
C5_KeyPressReleasesHalt ==
  [][/\ impl.halted_until_key_press_ =>
          impl.key_press_dest_ =
            (WordAt([impl EXCEPT !.program_counter_ = @ - 2]) \div 256) % 16
     /\ (ret'.op = "Step" /\ impl.halted_until_key_press_) =>
          impl'.halted_until_key_press_
     /\ ret'.op = "SetKeyState" =>
          LET key == ret'.arg[1]
              state == ret'.arg[2]
          IN IF impl.halted_until_key_press_ /\ state = kPressed
               THEN impl' = [impl EXCEPT !.V_[impl.key_press_dest_] = key,
                                         !.halted_until_key_press_ = FALSE,
                                         !.keypad_[key] = kPressed]
               ELSE impl' = [impl EXCEPT !.keypad_[key] = state]]_vars

\* The key 15 has been delivered to V2 and the machine runs again.
C5_Witness ==
  /\ ret.op = "SetKeyState"
  /\ ret.arg = <<kKeypad - 1, kPressed>>
  /\ ~impl.halted_until_key_press_
  /\ WordAt([impl EXCEPT !.program_counter_ = @ - 2]) = LD_K(2)
  /\ impl.V_[2] = kKeypad - 1
  /\ impl.keypad_[kKeypad - 1] = kPressed

\* Some breakpoint sits at the program counter.
AtBreakpoint ==
  \E i \in 1..Len(breakpoints_) :
     breakpoints_[i].first = impl.program_counter_

\* The index of the first breakpoint at the program counter.
FirstMatch ==
  CHOOSE i \in 1..Len(breakpoints_) :
     /\ breakpoints_[i].first = impl.program_counter_
     /\ \A j \in 1..(i - 1) : breakpoints_[j].first # impl.program_counter_

\* C6: a Step called with a breakpoint at the program counter returns
\* kBreakpointReached and executes nothing: the guest state with both timers,
\* the step counter and the tone flag are as before and no callback is
\* invoked.
C6_BreakpointStopsStep ==
  [][(ret'.op = "Step" /\ AtBreakpoint) =>
       /\ ret'.result = "kBreakpointReached"
       /\ impl' = impl
       /\ number_of_steps_executed_' = number_of_steps_executed_
       /\ is_playing_tone_' = is_playing_tone_
       /\ ret'.screens = 0
       /\ ret'.tones = << >>]_vars

\* A Step was stopped by a breakpoint when the timers were due and running,
\* with both callbacks registered.
C6_Witness ==
  /\ ret.op = "Step"
  /\ ret.result = "kBreakpointReached"
  /\ update_screen_func_ /\ play_tone_func_
  /\ number_of_steps_executed_ % (kMaxTimerSteps + 1) = kMaxTimerSteps
  /\ impl.sound_timer_ > 0 /\ impl.delay_timer_ > 0

\* C7: on a match in Step the matched breakpoint is removed when its
\* disposition is kClearAfterTrigger and stays when it is kPreserve; no other
\* entry is added or removed, and a Step without a match leaves the
\* collection alone.
C7_ClearAfterTriggerIsRemoved ==
  [][ret'.op = "Step" =>
       IF AtBreakpoint
         THEN IF breakpoints_[FirstMatch].second = kClearAfterTrigger
                THEN breakpoints_' = Erase(breakpoints_, FirstMatch)
                ELSE breakpoints_' = breakpoints_
         ELSE breakpoints_' = breakpoints_]_vars

\* C8: RunForOneFrame calls Step at most steps-per-frame times; every Step
\* but the last has returned kSuccess; it returns kSuccess only after exactly
\* steps-per-frame such Steps, and otherwise what its last Step returned,
\* which is not kSuccess.
C8_FrameStopsAtFirstFailure ==
  (ret.op = "RunForOneFrame") =>
     /\ Len(ret.steps) <= number_of_steps_per_frame_
     /\ \A i \in 1..(Len(ret.steps) - 1) : ret.steps[i] = "kSuccess"
     /\ IF ret.result = "kSuccess"
          THEN /\ Len(ret.steps) = number_of_steps_per_frame_
               /\ \A i \in 1..Len(ret.steps) : ret.steps[i] = "kSuccess"
          ELSE /\ Len(ret.steps) >= 1
               /\ ret.steps[Len(ret.steps)] = ret.result

\* A frame of eight steps was cut short by its second Step, which halted the
\* machine.
C8_Witness ==
  /\ ret.op = "RunForOneFrame"
  /\ ret.result = "kHaltUntilKeyPress"
  /\ ret.steps = << "kSuccess", "kHaltUntilKeyPress" >>
  /\ number_of_steps_per_frame_ = 8
  /\ number_of_steps_executed_ = 2

\* C9: LoadProgram returns false exactly for a container of more than
\* 4096 - 0x200 bytes, and then the guest state, the step counter, the tone
\* flag and the breakpoints are as before.
C9_LargeProgramRejected ==
  [][ret'.op = "LoadProgram" =>
       /\ ret'.result = "false" <=>
            ret'.arg.size > kInternalMemory - kProgramArea
       /\ ret'.result = "false" =>
            /\ impl' = impl
            /\ number_of_steps_executed_' = number_of_steps_executed_
            /\ is_playing_tone_' = is_playing_tone_
            /\ breakpoints_' = breakpoints_]_vars

\* A container one byte too large was refused by a machine that had already
\* run part of another program.
C9_Witness ==
  /\ ret.op = "LoadProgram"
  /\ ret.result = "false"
  /\ ret.arg.size = kInternalMemory - kProgramArea + 1
  /\ number_of_steps_executed_ > 0
  /\ impl.program_counter_ # kProgramArea

\* C10: after a successful LoadProgram the machine is in the startup state
\* except that the program's bytes lie from 0x200 on: the font table and then
\* zeros below, zeros above the program.
C10_LoadedImage ==
  (ret.op = "LoadProgram" /\ ret.result = "true") =>
     /\ \A a \in Addresses :
          Byte(impl.memory_, a) =
            IF a < Len(kFontSet) THEN kFontSet[a + 1]
            ELSE IF a >= kProgramArea /\ a < kProgramArea + ret.arg.size
                   THEN Byte(ret.arg.bytes, a - kProgramArea)
                   ELSE 0
     /\ \A i \in Registers : impl.V_[i] = 0
     /\ \A i \in StackSlots : impl.stack_[i] = 0
     /\ \A p \in Pixels : Pixel(impl.framebuffer_, p) = kBlack
     /\ \A k \in Keys : impl.keypad_[k] = kReleased
     /\ impl.program_counter_ = kProgramArea
     /\ impl.stack_pointer_ = -1
     /\ impl.delay_timer_ = 0 /\ impl.sound_timer_ = 0 /\ impl.I_ = 0
     /\ ~impl.halted_until_key_press_
     /\ number_of_steps_executed_ = 0
     /\ ~is_playing_tone_

\* The program that fills the program area to its last byte has been loaded.
C10_Witness ==
  /\ ret.op = "LoadProgram"
  /\ ret.result = "true"
  /\ ret.arg.size = kInternalMemory - kProgramArea
  /\ Byte(impl.memory_, kInternalMemory - 1) = CLS

\* C11: SetTiming(ips, fps) returns false exactly when ips = 0, fps <= 0 or
\* ips / fps < 1, and then leaves steps per frame, the maximum frame time,
\* the target frame rate and the stored ips and fps alone; otherwise it
\* returns true and steps per frame is floor(ips / fps).
\* SetInstructionsPerSecond and SetFrameRate do the same with their argument
\* paired with the other stored parameter.
C11_SetTimingRejectsBadTiming ==
  [][ret'.op \in {"SetTiming", "SetInstructionsPerSecond", "SetFrameRate"} =>
       LET ips == CASE ret'.op = "SetTiming" -> ret'.arg[1]
                    [] ret'.op = "SetInstructionsPerSecond" -> ret'.arg
                    [] ret'.op = "SetFrameRate" -> instructions_per_sec_
           fps == CASE ret'.op = "SetTiming" -> ret'.arg[2]
                    [] ret'.op = "SetInstructionsPerSecond" -> frame_rate_
                    [] ret'.op = "SetFrameRate" -> ret'.arg
           rejected == \/ ips = 0
                       \/ fps.num <= 0
                       \/ ips * fps.den < fps.num
       IN /\ ret'.result = BoolResult(~rejected)
          /\ rejected => UNCHANGED timing
          /\ ~rejected =>
               /\ number_of_steps_per_frame_' * fps.num <= ips * fps.den
               /\ ips * fps.den < (number_of_steps_per_frame_' + 1) * fps.num
               /\ instructions_per_sec_' = ips
               /\ frame_rate_' = fps
               /\ max_frame_time_'.num * fps.num
                    = kSecInMs * fps.den * max_frame_time_'.den]_vars

\* SetInstructionsPerSecond(29) at 30 frames per second was rejected for a
\* quotient below 1, and left in place the 33 steps per frame of 1000
\* instructions per second at 30 frames per second.
C11_Witness ==
  /\ ret.op = "SetInstructionsPerSecond"
  /\ ret.arg = 29
  /\ ret.result = "false"
  /\ frame_rate_ = Rate(30, 1)
  /\ instructions_per_sec_ = 1000
  /\ number_of_steps_per_frame_ = 33

C13_TimerCadenceFollowsRate ==
  [][(/\ ret'.op = "Step"
      /\ ret'.result \notin {"kBreakpointReached", "undefined"}
      /\ (2 * instructions_per_sec_ + 60) \div 120 > 0) =>
       (ret'.ticks = 1
          <=> number_of_steps_executed_'
                % ((2 * instructions_per_sec_ + 60) \div 120) = 0)]_vars

\* C14: with a tone callback registered, every activation of the sound timer
\* (LD ST,Vx taking it from zero to a nonzero value) causes exactly one call
\* of the callback: at a check of the timers the callback is called exactly
\* when the running sound timer has an activation not yet announced.
C14_OneToneForEachActivation ==
  [][(/\ ret'.op = "Step"
      /\ ret'.ticks = 1
      /\ play_tone_func_) =>
       (Len(ret'.tones) = 1
          <=> (ret.tone_due /\ impl.sound_timer_ > 0))]_vars

\* C15: with a screen callback registered, the callback is called exactly
\* when the number of steps executed since reset reaches a positive multiple
\* of steps per frame, after the last step of a frame and never before it.
C15_ScreenUpdateAtFrameBoundary ==
  [][(/\ ret'.op = "Step"
      /\ ret'.result \notin {"kBreakpointReached", "undefined"}
      /\ update_screen_func_) =>
       (ret'.screens = 1
          <=> number_of_steps_executed_' % number_of_steps_per_frame_ = 0)]_vars

\* C16: PrepareForStepInto scans two-byte cells from the program counter to
\* the end of memory; if some cell decodes to a CALL it appends exactly one
\* clear-after-trigger breakpoint at the target of the first such CALL and
\* returns Success, otherwise it appends nothing and returns NoSubroutine;
\* guest state is unchanged either way.
C16_StepIntoFindsFirstCall ==
  [][ret'.op = "PrepareForStepInto" =>
       LET cells == {a \in impl.program_counter_..4094 :
                       (a - impl.program_counter_) % 2 = 0}
           calls == {a \in cells : Byte(impl.memory_, a) \div 16 = 2}
           first_call == CHOOSE a \in calls : \A b \in calls : a <= b
           target == (Byte(impl.memory_, first_call) % 16) * 256
                       + Byte(impl.memory_, first_call + 1)
       IN /\ impl' = impl
          /\ IF calls = {}
               THEN /\ ret'.result = "kNoSubroutine"
                    /\ breakpoints_' = breakpoints_
               ELSE /\ ret'.result = "kSuccess"
                    /\ Len(breakpoints_') = Len(breakpoints_) + 1
                    /\ SubSeq(breakpoints_', 1, Len(breakpoints_))
                         = breakpoints_
                    /\ breakpoints_'[Len(breakpoints_')].first = target
                    /\ ClearsOnTrigger(
                         breakpoints_'[Len(breakpoints_')].second)]_vars

\* C17: PrepareForStepOver decodes the instruction stored at pc + 2: if it
\* is a CALL it appends one clear-after-trigger breakpoint at the CALL's
\* target plus 2, otherwise one at pc + 2; guest state is unchanged.
C17_StepOverSkipsCall ==
  [][ret'.op = "PrepareForStepOver" =>
       LET hi == Byte(impl.memory_, impl.program_counter_ + 2)
           lo == Byte(impl.memory_, impl.program_counter_ + 3)
           stop == IF hi \div 16 = 2
                     THEN (hi % 16) * 256 + lo + 2
                     ELSE impl.program_counter_ + 2
       IN /\ impl' = impl
          /\ Len(breakpoints_') = Len(breakpoints_) + 1
          /\ SubSeq(breakpoints_', 1, Len(breakpoints_)) = breakpoints_
          /\ breakpoints_'[Len(breakpoints_')].first = stop
          /\ ClearsOnTrigger(breakpoints_'[Len(breakpoints_')].second)]_vars

C19_RetPopsReturnAddress ==
  [][(/\ ret'.op = "Step"
      /\ ret'.result # "undefined"
      /\ ~impl.halted_until_key_press_
      /\ WordAt(impl) \div 4096 = 0
      /\ WordAt(impl) % 256 = 238) =>
       LET g == CheckTimers(Machine).impl
           s == impl.stack_pointer_
       IN IF s >= 0
            THEN /\ ret'.result = "kSuccess"
                 /\ impl'.program_counter_ = impl.stack_[s]
                 /\ impl'.stack_pointer_ = s - 1
                 /\ impl' = [g EXCEPT !.program_counter_ = impl.stack_[s],
                                      !.stack_pointer_ = s - 1]
            ELSE /\ ret'.result = "kStackUnderflow"
                 /\ impl' = g]_vars

\* CallOnce's subroutine has returned to the word after its CALL.
C19_Witness ==
  /\ ret.op = "Step"
  /\ ret.result = "kSuccess"
  /\ impl.stack_pointer_ = -1
  /\ impl.stack_[0] = kProgramArea + 2
  /\ impl.program_counter_ = kProgramArea + 2
  /\ WordAt(impl) = JP(kProgramArea)
  /\ WordAt([impl EXCEPT !.program_counter_ = kProgramArea + 4]) = RET

\* C20: CALL addr with stack pointer s < 15 returns Success, sets stack[s+1]
\* to pc + 2, the stack pointer to s + 1 and the program counter to addr;
\* with the stack full (s = 15) it returns StackOverflow and leaves the
\* stack, the stack pointer and the program counter unchanged.
C20_CallPushesReturnAddress ==
  [][(/\ ret'.op = "Step"
      /\ ret'.result # "undefined"
      /\ ~impl.halted_until_key_press_
      /\ WordAt(impl) \div 4096 = 2) =>
       LET g == CheckTimers(Machine).impl
           s == impl.stack_pointer_
       IN IF s < 15
            THEN /\ ret'.result = "kSuccess"
                 /\ impl'.stack_[s + 1] = impl.program_counter_ + 2
                 /\ impl'.stack_pointer_ = s + 1
                 /\ impl'.program_counter_ = WordAt(impl) % 4096
                 /\ \A i \in 0..15 : i # s + 1 =>
                      impl'.stack_[i] = impl.stack_[i]
                 /\ \A f \in DOMAIN impl \ {"stack_", "stack_pointer_",
                                              "program_counter_"} :
                      impl'[f] = g[f]
            ELSE /\ ret'.result = "kStackOverflow"
                 /\ impl'.stack_ = impl.stack_
                 /\ impl'.stack_pointer_ = s
                 /\ impl'.program_counter_ = impl.program_counter_]_vars

\* NestedCalls is three calls deep: the third CALL, at 0x204, pushed 0x206
\* above the two return addresses already stacked and jumped to 0x206.
C20_Witness ==
  /\ ret.op = "Step"
  /\ ret.result = "kSuccess"
  /\ impl.stack_pointer_ = 2
  /\ impl.stack_[0] = kProgramArea + 2
  /\ impl.stack_[1] = kProgramArea + 4
  /\ impl.stack_[2] = kProgramArea + 6
  /\ impl.program_counter_ = kProgramArea + 6
\* C21: ADD Vx,Vy with x other than F sets VF to 1 if Vx + Vy > 255 and to 0
\* otherwise, and Vx to (Vx + Vy) mod 256, for the values the two registers
\* hold before the instruction (y may be F); no other register changes and
\* the Step returns kSuccess.
C21_AddSetsCarryAndSum ==
  [][(/\ ret'.op = "Step"
      /\ ret'.result # "undefined"
      /\ ~impl.halted_until_key_press_
      /\ WordAt(impl) \div 4096 = kMath
      /\ WordAt(impl) % 16 = kMathADD
      /\ (WordAt(impl) \div 256) % 16 # 15) =>
       LET x == (WordAt(impl) \div 256) % 16
           y == (WordAt(impl) \div 16) % 16
           Vx == impl.V_[x]
           Vy == impl.V_[y]
       IN /\ ret'.result = "kSuccess"
          /\ impl'.V_[15] = (IF Vx + Vy > 255 THEN 1 ELSE 0)
          /\ impl'.V_[x] = (Vx + Vy) % 256
          /\ \A i \in Registers \ {x, 15} : impl'.V_[i] = impl.V_[i]]_vars

\* ADD V1,VF of 131 and 129 has left 4 in V1 and the carry in VF.
C21_Witness ==
  /\ ret.op = "Step"
  /\ ret.result = "kSuccess"
  /\ impl.program_counter_ = kProgramArea + 6
  /\ WordAt([impl EXCEPT !.program_counter_ = kProgramArea + 4])
       = MathWord(1, 15, kMathADD)
  /\ impl.V_[1] = 4
  /\ impl.V_[15] = 1

\* C22: for x other than F and every y, F included, SUB Vx,Vy stores
\* (Vx - Vy) mod 256 in Vx and sets VF to 1 iff Vx > Vy, and SUBN Vx,Vy
\* stores (Vy - Vx) mod 256 in Vx and sets VF to 1 iff Vy > Vx, Vx and Vy
\* being the values the registers hold before the instruction.
C22_SubtractFromOperandsBefore ==
  [][(/\ ret'.op = "Step"
      /\ ret'.result # "undefined"
      /\ ~impl.halted_until_key_press_
      /\ WordAt(impl) \div 4096 = kMath
      /\ WordAt(impl) % 16 \in {kMathSUB, kMathSUBN}
      /\ (WordAt(impl) \div 256) % 16 # 15) =>
       LET x == (WordAt(impl) \div 256) % 16
           y == (WordAt(impl) \div 16) % 16
           minuend == IF WordAt(impl) % 16 = kMathSUB THEN impl.V_[x]
                                                     ELSE impl.V_[y]
           subtrahend == IF WordAt(impl) % 16 = kMathSUB THEN impl.V_[y]
                                                        ELSE impl.V_[x]
       IN /\ ret'.result = "kSuccess"
          /\ impl'.V_[15] = (IF minuend > subtrahend THEN 1 ELSE 0)
          /\ impl'.V_[x] = (minuend - subtrahend) % 256]_vars

\* C23: a DRW Vx,Vy,n whose rows do not all lie in memory_ (I + n > 4096)
\* returns kInvalidSpriteLocation and leaves the program counter where it
\* was; the rows before the first one outside memory_ have been drawn, VF
\* telling whether one of them switched a pixel off, and no pixel of that
\* row or of a later one has changed.  (Vx and Vy are registers other than
\* VF here; C30 is about the flag register as a coordinate.)
C23_SpriteRowsCheckedOneByOne ==
  [][(/\ ret'.op = "Step"
      /\ ret'.result # "undefined"
      /\ ~impl.halted_until_key_press_
      /\ WordAt(impl) \div 4096 = kDRW
      /\ (WordAt(impl) \div 256) % 16 # 15
      /\ (WordAt(impl) \div 16) % 16 # 15
      /\ impl.I_ + (WordAt(impl) % 16) > kInternalMemory) =>
       LET Vx == impl.V_[(WordAt(impl) \div 256) % 16]
           Vy == impl.V_[(WordAt(impl) \div 16) % 16]
           valid == IF impl.I_ >= kInternalMemory
                      THEN 0 ELSE kInternalMemory - impl.I_
           drawn == SpritePixels(impl, Vx, Vy, valid)
       IN /\ ret'.result = "kInvalidSpriteLocation"
          /\ impl'.program_counter_ = impl.program_counter_
          /\ impl'.framebuffer_ = (impl.framebuffer_ \ drawn)
                                    \cup (drawn \ impl.framebuffer_)
          /\ impl'.V_[15] = (IF drawn \cap impl.framebuffer_ # {}
                               THEN 1 ELSE 0)]_vars

\* The sprite 0x81, 0xFF in the last two bytes of memory_ has been drawn
\* at (0, 0) over the font's 0 and its third row was refused: the pixels
\* (0, 0) and (0, 1) went off, (7, 0) and (7, 1) went on.
C23_Witness ==
  /\ ret.op = "Step"
  /\ ret.result = "kInvalidSpriteLocation"
  /\ impl.I_ = kInternalMemory - 2
  /\ WordAt(impl) = DRW(2, 3, 4)
  /\ Byte(impl.memory_, kInternalMemory - 2) = 129
  /\ Byte(impl.memory_, kInternalMemory - 1) = 255
  /\ impl.V_[2] = 0
  /\ impl.V_[3] = 0
  /\ impl.V_[15] = 1
  /\ {0, kWidth} \cap impl.framebuffer_ = {}
  /\ {7, kWidth + 7} \subseteq impl.framebuffer_

\* C24: LD B,Vx with I + 2 >= 4096 returns kInvalidMemoryLocation and writes
\* no byte of memory; otherwise it returns kSuccess and leaves in
\* memory[I], memory[I + 1] and memory[I + 2] three digits 0..9, hundreds
\* first, with 100 * memory[I] + 10 * memory[I + 1] + memory[I + 2] = Vx,
\* every other byte of memory being as before.
C24_BcdStoresThreeDigits ==
  [][(/\ ret'.op = "Step"
      /\ ret'.result # "undefined"
      /\ ~impl.halted_until_key_press_
      /\ WordAt(impl) \div 4096 = kTimerAndMemoryControl
      /\ WordAt(impl) % 256 = kLD_B_Vx) =>
       LET Vx == impl.V_[(WordAt(impl) \div 256) % 16]
           I == impl.I_
           digit(i) == Byte(impl'.memory_, I + i)
       IN IF I + 2 >= kInternalMemory
            THEN /\ ret'.result = "kInvalidMemoryLocation"
                 /\ impl'.memory_ = impl.memory_
                 /\ impl'.program_counter_ = impl.program_counter_
            ELSE /\ ret'.result = "kSuccess"
                 /\ \A i \in 0..2 : digit(i) \in 0..9
                 /\ 100 * digit(0) + 10 * digit(1) + digit(2) = Vx
                 /\ \A a \in (DOMAIN impl.memory_ \cup DOMAIN impl'.memory_)
                               \ (I..(I + 2)) :
                      Byte(impl'.memory_, a) = Byte(impl.memory_, a)]_vars

\* LD B,V0 with V0 = 254 and I = 0x300 has stored 2, 5, 4.
C24_Witness ==
  /\ ret.op = "Step"
  /\ ret.result = "kSuccess"
  /\ impl.program_counter_ = kProgramArea + 6
  /\ WordAt([impl EXCEPT !.program_counter_ = kProgramArea + 4]) = LD_B(0)
  /\ impl.V_[0] = 254
  /\ impl.I_ = 768
  /\ Byte(impl.memory_, 768) = 2
  /\ Byte(impl.memory_, 769) = 5
  /\ Byte(impl.memory_, 770) = 4

\* C25: LD [I],Vx and LD Vx,[I] never touch a memory index outside 0..4095:
\* with I + x past the end of memory they change no register and no memory
\* byte; otherwise they copy exactly V0..Vx to memory[I..I + x], or
\* memory[I..I + x] to V0..Vx, and nothing else of the registers and the
\* memory changes.
C25_BulkCopyStaysInMemory ==
  [][(/\ ret'.op = "Step"
      /\ ~impl.halted_until_key_press_
      /\ FetchInBounds(impl)
      /\ WordAt(impl) \div 4096 = kTimerAndMemoryControl
      /\ WordAt(impl) % 256 \in {kLD_I_Vx, kLD_Vx_I}) =>
       LET x == (WordAt(impl) \div 256) % 16
           I == impl.I_
           cells == DOMAIN impl.memory_ \cup DOMAIN impl'.memory_
       IN /\ ret'.result # "undefined"
          /\ IF I + x > kInternalMemory - 1
               THEN /\ impl'.V_ = impl.V_
                    /\ impl'.memory_ = impl.memory_
               ELSE IF WordAt(impl) % 256 = kLD_I_Vx
                      THEN /\ impl'.V_ = impl.V_
                           /\ \A i \in 0..x :
                                Byte(impl'.memory_, I + i) = impl.V_[i]
                           /\ \A a \in cells \ (I..(I + x)) :
                                Byte(impl'.memory_, a) = Byte(impl.memory_, a)
                      ELSE /\ impl'.memory_ = impl.memory_
                           /\ \A i \in 0..x :
                                impl'.V_[i] = Byte(impl.memory_, I + i)
                           /\ \A i \in Registers \ (0..x) :
                                impl'.V_[i] = impl.V_[i]]_vars

\* C28: in every reachable state, whatever the width of the integer type
\* behind the registers, each of the sixteen registers holds a value in
\* 0..255.
C28_RegistersHoldBytes ==
  \A i \in Registers : impl.V_[i] \in 0..255

\* C29: LD Vx,K executed by a machine that is not halted does not fault: it
\* returns kHaltUntilKeyPress, sets the halt flag, records x as the
\* destination register, moves the program counter on by 2 and changes
\* nothing else; and the Step that follows the key press which released the
\* machine executes the word after that Fx0A: it sends the program counter
\* where that word sends it, and halts again only if that word is itself an
\* Fx0A.
C29_LoadKeyHaltsPastItself ==
  /\ [][(/\ ret'.op = "Step"
         /\ ret'.result # "undefined"
         /\ ~impl.halted_until_key_press_
         /\ WordAt(impl) \div 4096 = kTimerAndMemoryControl
         /\ WordAt(impl) % 256 = kLD_Vx_K) =>
          /\ ret'.result = "kHaltUntilKeyPress"
          /\ impl' = [CheckTimers(Machine).impl EXCEPT
                        !.halted_until_key_press_ = TRUE,
                        !.key_press_dest_ = (WordAt(impl) \div 256) % 16,
                        !.program_counter_ = @ + 2]]_vars
  /\ [][(/\ ret.op = "SetKeyState"
         /\ ret.arg[2] = kPressed
         /\ ~impl.halted_until_key_press_
         /\ WordAt([impl EXCEPT !.program_counter_ = @ - 2]) \div 4096
              = kTimerAndMemoryControl
         /\ WordAt([impl EXCEPT !.program_counter_ = @ - 2]) % 256
              = kLD_Vx_K
         /\ impl.V_[impl.key_press_dest_] = ret.arg[1]
         /\ ret'.op = "Step"
         /\ ret'.result \in {"kSuccess", "kHaltUntilKeyPress"}) =>
          /\ impl'.program_counter_ = TargetOf(impl)
          /\ ret'.result = "kHaltUntilKeyPress" =>
               WordAt(impl) % 256 = kLD_Vx_K]_vars

\* After LD V2,K at 0x206 and the press of key 15, the Step has executed
\* the SKP V2 at 0x208 and skipped to 0x20C.
C29_Witness ==
  /\ ret.op = "Step"
  /\ ret.result = "kSuccess"
  /\ WordAt([impl EXCEPT !.program_counter_ = kProgramArea + 6]) = LD_K(2)
  /\ WordAt([impl EXCEPT !.program_counter_ = kProgramArea + 8]) = SKP(2)
  /\ impl.V_[2] = kKeypad - 1
  /\ impl.keypad_[kKeypad - 1] = kPressed
  /\ ~impl.halted_until_key_press_
  /\ impl.program_counter_ = kProgramArea + 12

\* C30: a DRW Vx,Vy,n that returns kSuccess, for any register indices x and
\* y (F included), inverts exactly the pixels the set bits of the n sprite
\* rows address from (Vx, Vy), Vx and Vy being the values held before the
\* instruction, and leaves VF = 1 if one of them was on before and VF = 0
\* otherwise.
C30_DrawXorsSpriteAtVxVy ==
  [][(/\ ret'.op = "Step"
      /\ ret'.result = "kSuccess"
      /\ ~impl.halted_until_key_press_
      /\ WordAt(impl) \div 4096 = kDRW) =>
       LET Vx == impl.V_[(WordAt(impl) \div 256) % 16]
           Vy == impl.V_[(WordAt(impl) \div 16) % 16]
           sprite == SpritePixels(impl, Vx, Vy, WordAt(impl) % 16)
       IN /\ impl'.framebuffer_ = (impl.framebuffer_ \ sprite)
                                    \cup (sprite \ impl.framebuffer_)
          /\ impl'.V_[15] = (IF sprite \cap impl.framebuffer_ # {}
                               THEN 1 ELSE 0)]_vars

\* C26: a key press or release coming from the GUI thread is applied to the
\* machine between Steps only: no SetKeyState executes while the worker is
\* inside RunForOneFrame on that machine.
C26_KeysAppliedBetweenFrames ==
  [][ret'.op = "SetKeyState" => vm_thread_.at # "frame"]_vars

\* C27: the worker leaves a frame in progress only when the frame is over
\* (its Steps are done, or one did not return kSuccess), and run returns on
\* an interruption request only at the loop test between two frames; the
\* handler that called StopExecution loads its program only after run has
\* returned, so no LoadProgram happens while the worker is in a frame; and
\* once a handler waits in StopExecution, the worker does stop.
C27_StopWaitsForFrameEnd ==
  /\ [][/\ (vm_thread_.at = "frame" /\ vm_thread_'.at # "frame") =>
            LET steps == vm_thread_'.steps
            IN /\ ret'.op = "Step"
               /\ steps = Append(vm_thread_.steps, ret'.result)
               /\ \A i \in 1..(Len(steps) - 1) : steps[i] = "kSuccess"
               /\ IF ret'.result = "kSuccess"
                    THEN /\ Len(steps) = number_of_steps_per_frame_
                         /\ vm_thread_'.at = "sleep"
                    ELSE vm_thread_'.at = "finished"
        /\ (vm_thread_.at \in {"loop", "sleep"}
              /\ vm_thread_'.at = "finished") =>
             /\ vm_thread_.at = "loop"
             /\ vm_thread_.interruption_requested
        /\ (vm_thread_.host = "idle" /\ vm_thread_'.host # "idle") =>
             vm_thread_'.interruption_requested
               = (vm_thread_.interruption_requested
                    \/ vm_thread_.at # "finished")
        /\ (ret'.op = "LoadProgram" /\ ret' # ret) =>
             /\ vm_thread_.host = "load"
             /\ vm_thread_.at = "finished"
        /\ (vm_thread_.host # "idle" /\ vm_thread_'.host = "idle") =>
             vm_thread_.at = "finished"]_vars
  /\ (vm_thread_.host # "idle") ~> (vm_thread_.at = "finished")

\* The ResetEmulation handler waits in StopExecution while the worker,
\* asked to stop in the middle of a frame of ToneLoop, has run that frame
\* to its end and is asleep.
C27_Witness ==
  /\ vm_thread_.host = "load"
  /\ vm_thread_.interruption_requested
  /\ vm_thread_.at = "sleep"
  /\ Len(vm_thread_.steps) = number_of_steps_per_frame_
  /\ WordAt([impl EXCEPT !.program_counter_ = kProgramArea]) = LD(0, 1)
  /\ ret.op = "Step"

\* C31: SE Vx,imm, SNE Vx,imm, SE Vx,Vy and SNE Vx,Vy executed by a machine
\* that is not halted return kSuccess, move the program counter on by 4
\* when their condition holds and by 2 when it does not, whatever the word
\* after them is, and change nothing else of the guest state.
C31_SkipsMoveByFourOrTwo ==
  [][(/\ ret'.op = "Step"
      /\ ret'.result # "undefined"
      /\ ~impl.halted_until_key_press_
      /\ WordAt(impl) \div 4096
           \in {kSE_Vx_Imm, kSNE_Vx_Imm, kSE_Vx_Vy, kSNE_Vx_Vy}) =>
       LET w == WordAt(impl)
           group == w \div 4096
           Vx == impl.V_[(w \div 256) % 16]
           Vy == impl.V_[(w \div 16) % 16]
           holds == CASE group = kSE_Vx_Imm -> Vx = w % 256
                      [] group = kSNE_Vx_Imm -> Vx # w % 256
                      [] group = kSE_Vx_Vy -> Vx = Vy
                      [] group = kSNE_Vx_Vy -> Vx # Vy
       IN /\ ret'.result = "kSuccess"
          /\ impl' = [CheckTimers(Machine).impl EXCEPT
                        !.program_counter_ =
                           @ + (IF holds THEN 4 ELSE 2)]]_vars

\* SNE V1,V2 at 0x204 with V1 = 128 and V2 = 1 has skipped the word at
\* 0x206.
C31_Witness ==
  /\ ret.op = "Step"
  /\ ret.result = "kSuccess"
  /\ WordAt([impl EXCEPT !.program_counter_ = kProgramArea + 4])
       = kSNE_Vx_Vy * 4096 + 1 * 256 + 2 * 16
  /\ impl.V_[1] = 128
  /\ impl.V_[2] = 1
  /\ impl.program_counter_ = kProgramArea + 8

\* C32: SKP Vx and SKNP Vx executed by a machine that is not halted return
\* kInvalidKey and leave the program counter and the rest of the guest
\* state as they are when Vx > 15; when Vx <= 15 they return kSuccess, SKP
\* moves the program counter on by 4 if key Vx is pressed, SKNP by 4 if key
\* Vx is released, and both by 2 otherwise.
C32_KeySkipsCheckTheKey ==
  [][(/\ ret'.op = "Step"
      /\ ret'.result # "undefined"
      /\ ~impl.halted_until_key_press_
      /\ WordAt(impl) \div 4096 = kKeyboardControlFlow
      /\ WordAt(impl) % 256 \in {kSKP, kSKNP}) =>
       LET Vx == impl.V_[(WordAt(impl) \div 256) % 16]
           skips == IF WordAt(impl) % 256 = kSKP THEN kPressed
                                                 ELSE kReleased
       IN IF Vx > 15
            THEN /\ ret'.result = "kInvalidKey"
                 /\ impl' = CheckTimers(Machine).impl
            ELSE /\ ret'.result = "kSuccess"
                 /\ impl' = [CheckTimers(Machine).impl EXCEPT
                               !.program_counter_ =
                                  @ + (IF impl.keypad_[Vx] = skips
                                         THEN 4 ELSE 2)]]_vars

\* SKNP V1 at 0x202 with V1 = 17 and key 0 held down has returned
\* kInvalidKey and stayed at 0x202.
C32_Witness ==
  /\ ret.op = "Step"
  /\ ret.result = "kInvalidKey"
  /\ WordAt(impl) = SKNP(1)
  /\ impl.V_[1] = 17
  /\ impl.keypad_[0] = kPressed
  /\ impl.program_counter_ = kProgramArea + 2

\* C34: for every 16-bit value v the decoder yields group = v div 4096,
\* x = (v div 256) mod 16, y = (v div 16) mod 16, address = v mod 4096,
\* byte = v mod 256, nibble = v mod 16 and raw = v, so that
\* v = group * 4096 + address, address = x * 256 + byte and
\* byte = y * 16 + nibble.
C34_DecoderSlicesTheWord ==
  [][ret'.op = "DisassembleInstruction" =>
       LET i == ret'.arg
           v == WordAt(impl)
       IN /\ v \in 0..(2 ^ 16 - 1)
          /\ i.value_ = v
          /\ i.group_ = v \div 4096
          /\ i.x_ = (v \div 256) % 16
          /\ i.y_ = (v \div 16) % 16
          /\ i.address_ = v % 4096
          /\ i.byte_ = v % 256
          /\ i.nibble_ = v % 16
          /\ v = i.group_ * 4096 + i.address_
          /\ i.address_ = i.x_ * 256 + i.byte_
          /\ i.byte_ = i.y_ * 16 + i.nibble_]_vars

\* 0xD5A3 has been decoded into group D, x = 5, y = A, nibble 3.
C34_Witness ==
  /\ ret.op = "DisassembleInstruction"
  /\ ret.arg.value_ = 54691
  /\ ret.arg.group_ = kDRW
  /\ ret.arg.x_ = 5
  /\ ret.arg.y_ = 10
  /\ ret.arg.nibble_ = 3
  /\ ret.arg.byte_ = 163
  /\ ret.arg.address_ = 1443

\* C33: the disassembler returns an ILLEGAL mnemonic for the word at the
\* program counter exactly when the Step that executes that word returns
\* kInvalidInstruction, which leaves the guest state as it was, and a named
\* mnemonic exactly when the Step dispatches the word to a handler (any
\* other result); the disassembler has a result for every word and changes
\* nothing of the machine.
C33_DisassemblerAgreesWithStep ==
  /\ [][(/\ ret.op = "DisassembleInstruction"
         /\ ret'.op = "Step"
         /\ ret'.result # "undefined"
         /\ ~impl.halted_until_key_press_) =>
          /\ ret.arg.value_ = WordAt(impl)
          /\ ret.result.format \in {"ILLEGAL ${:04X}", "ILLEGAL ${:X}"}
               <=> ret'.result = "kInvalidInstruction"
          /\ ret'.result = "kInvalidInstruction" =>
               impl' = CheckTimers(Machine).impl]_vars
  /\ [][ret'.op = "DisassembleInstruction" =>
          /\ DOMAIN ret'.result = {"format", "args"}
          /\ UNCHANGED <<impl, breakpoints_, number_of_steps_executed_,
                         is_playing_tone_, timing, callbacks, ub,
                         vm_thread_>>]_vars

\* 0x8F09 has been disassembled as ILLEGAL and the Step on it has returned
\* kInvalidInstruction.
C33_Witness ==
  /\ ret.op = "Step"
  /\ ret.result = "kInvalidInstruction"
  /\ impl.program_counter_ = kProgramArea
  /\ WordAt(impl) = MathWord(15, 0, 9)
  /\ DisassembleInstruction(Instruction(WordAt(impl))).format
       = "ILLEGAL ${:X}"

\* C35: the worker's run loop stops at the first Step of a frame that
\* returns anything other than kSuccess, and it emits ExecutionFailure
\* exactly when that result is a guest fault: kHaltUntilKeyPress and
\* kBreakpointReached stop the loop with no ExecutionFailure.
C35_FailureSignalOnlyForFaults ==
  [][(/\ vm_thread_.at = "frame"
      /\ ret'.op = "Step"
      /\ vm_thread_'.steps = Append(vm_thread_.steps, ret'.result)
      /\ ret'.result # "undefined") =>
       /\ vm_thread_'.at = "finished" <=> ret'.result # "kSuccess"
       /\ ret'.signals # << >> <=> ret'.result \in Faults
       /\ ret'.result \in Faults =>
            ret'.signals = << <<"ExecutionFailure", ret'.result>> >>]_vars

\* C36: while a kPreserve breakpoint sits at the program counter, every Step
\* and every RunForOneFrame returns kBreakpointReached and changes neither
\* the guest state (program counter and timers included) nor the step
\* counter, and the breakpoint still sits there afterwards: stepping does
\* not get past it.
C36_PreservedBreakpointHoldsExecution ==
  [][(/\ ret'.op \in {"Step", "RunForOneFrame"}
      /\ ret' # ret
      /\ \E i \in 1..Len(breakpoints_) :
            breakpoints_[i] = [first |-> impl.program_counter_,
                               second |-> kPreserve]) =>
       /\ ret'.result = "kBreakpointReached"
       /\ impl' = impl
       /\ number_of_steps_executed_' = number_of_steps_executed_
       /\ \E i \in 1..Len(breakpoints_') :
            breakpoints_'[i] = [first |-> impl'.program_counter_,
                                second |-> kPreserve]]_vars

\* C37: the forward scan of PrepareForStepInto reads only the indices
\* 0..4095 of memory_, whatever program counter the machine holds when it
\* is called: every cell pc it reads, up to the first CALL, has pc + 1 inside
\* memory_, and the call returns kSuccess or kNoSubroutine.
C37_StepIntoScanStaysInMemory ==
  [][ret'.op = "PrepareForStepInto" =>
       LET cells == {a \in impl.program_counter_..(kInternalMemory - 1) :
                       (a - impl.program_counter_) % kInstructionLength = 0}
           read == {a \in cells :
                      \A b \in cells :
                         b < a => Byte(impl.memory_, b) \div 16
                                    # kCALL_Address}
       IN /\ \A a \in read : a + 1 <= kInternalMemory - 1
          /\ ret'.result \in {"kSuccess", "kNoSubroutine"}]_vars

\* C38: k <= 16 nested CALLs from stack pointer -1 followed by k RETs: each
\* CALL pushes its own address + 2, the RETs return to the pushed addresses
\* in reverse order (the RET met at depth s + 1 returns to the address after
\* the CALL number s + 1), and the stack pointer ends at -1 after the last of
\* them.  A 17th nested CALL reports kStackOverflow and leaves the machine,
\* the 16 stored return addresses included, as it was.
C38_NestedCallsReturnInReverse ==
  [][ret'.op = "impl_->Step" =>
       LET s == impl.stack_pointer_
           pc == impl.program_counter_
           calls == {i \in 1..kStack : Byte(impl.memory_, NestedSite(i)) \div 16
                                         = kCALL_Address}
       IN /\ s \in -1..(kStack - 1)
          /\ \A i \in 0..s : impl.stack_[i] = NestedSite(i + 1) + 2
          /\ (WordAt(impl) \div 4096 = kCALL_Address /\ s < kStack - 1) =>
                /\ ret'.result = "kSuccess"
                /\ pc = NestedSite(s + 2)
                /\ impl' = [impl EXCEPT !.stack_pointer_ = s + 1,
                                         !.stack_[s + 1] = pc + 2,
                                         !.program_counter_ = NestedSite(s + 3)]
          /\ (WordAt(impl) = RET /\ s >= 0) =>
                /\ ret'.result = "kSuccess"
                /\ s + 1 \in calls
                /\ impl' = [impl EXCEPT !.stack_pointer_ = s - 1,
                                         !.program_counter_ =
                                            NestedSite(s + 1) + 2]
                /\ s = 0 => /\ impl'.stack_pointer_ = -1
                            /\ impl'.program_counter_ = kProgramArea + 2
                            /\ \A i \in calls :
                                  impl'.stack_[i - 1] = NestedSite(i) + 2
          /\ (WordAt(impl) \div 4096 = kCALL_Address /\ s = kStack - 1) =>
                /\ ret'.result = "kStackOverflow"
                /\ impl' = impl
                /\ \A i \in 0..(kStack - 1) :
                      impl'.stack_[i] = NestedSite(i + 1) + 2]_vars

\* Sixteen nested CALLs and sixteen RETs have run: the stack pointer is back
\* at -1, the program counter is behind the first CALL, and stack_ still
\* holds the sixteen return addresses.
C38_Witness ==
  /\ ret.op = "impl_->Step" /\ ret.result = "kSuccess"
  /\ impl.stack_pointer_ = -1
  /\ impl.program_counter_ = kProgramArea + 2
  /\ Byte(impl.memory_, NestedSite(kStack)) \div 16 = kCALL_Address
  /\ Byte(impl.memory_, NestedSite(kStack + 1)) \div 16 # kCALL_Address
  /\ \A i \in 1..kStack : impl.stack_[i - 1] = NestedSite(i) + 2

====
